---- MODULE Spec2Model ----
(***************************************************************************)
(* Polling engine of thefeeder: the per-feed fetch job of the scheduler    *)
(* (app/core/scheduler.py), the HTTP fetch with retries                    *)
(* (app/core/fetcher.py), the rate limiter (app/core/rate_limit.py) and    *)
(* the store operations the job uses (app/core/storage.py).                *)
(*                                                                         *)
(* The process is one asyncio event loop: code between two awaits that     *)
(* really suspend is atomic.  The job suspends only inside fetch_feed:     *)
(* on the semaphore, on asyncio.sleep and on client.get.  Every action     *)
(* below is one such atomic segment.                                       *)
(***************************************************************************)
EXTENDS Integers, Sequences, FiniteSets, TLC

\* ---------------------------------------------------------------- bounds
NumFeeds == 2
NumHosts == 2
MaxTime == 1
MaxTicks == 2
MaxRetryAfter == 1
\* Executions of one feed in a row, in the serial specification.
MaxRuns == 7
\* Entries of a batch handed to add_items and the latest published time,
\* in the item store specification.
MaxBatch == 2
MaxPub == 2
\* Latest clock value and number of job runs and sweeps, in the degradation
\* specification; ttl_hours is the sweep's argument (24 hours), scaled to
\* one clock step.
MaxClock == 2
MaxSweepSteps == 4
ttl_hours == 1
\* Executions in a row in the specification with failing store calls.
MaxFaultRuns == 3
\* Job executions in the registration specification.
MaxRegRuns == 2
\* The jitter specification: the clock in seconds, the interval of every
\* feed and the window of the spread.
MaxJitterClock == 24
BaseInterval == 10
SpreadSeconds == 5
\* The maintenance specification: the clock in hours since day 0, from
\* FirstHour to MaxMaintClock, and the number of item rows.
FirstHour == 22
MaxMaintClock == 27
MaxMaintItems == 2
\* Settings.GLOBAL_CONCURRENCY, TokenBucket capacity, Settings.MAX_ITEMS and
\* Settings.RETRY_MAX_ATTEMPTS, scaled down so that an empty bucket, a full
\* semaphore, an eviction and an exhausted retry budget are reachable.
GLOBAL_CONCURRENCY == 1
capacity == 1
MAX_ITEMS == 2
RETRY_MAX_ATTEMPTS == 2

\* PER_HOST_RPS = 0.5 token per second: bucket levels are counted in half
\* tokens, so one second refills PER_HOST_RPS_HALVES halves and one request
\* costs 2 halves.
PER_HOST_RPS_HALVES == 1

\* NULL in a timestamp column: earlier than every time.
None == 0 - 1
Feeds == 1..NumFeeds
Hosts == 1..NumHosts
Times == 0..MaxTime
\* The scheduler's jobs of a feed, by job id: "feed_<id>" (interval trigger),
\* "immediate_<id>" and "manual_<id>_<int(time.time())>" (date triggers).
Jobs ==
  { <<f, k, 0>> : f \in Feeds, k \in {"periodic", "immediate"} }
  \cup { <<f, "manual", t>> : f \in Feeds, t \in Times }
JobsOf(f) == {j \in Jobs : j[1] = f}

\* httpx.URL(feed.url).host: feeds are spread over the hosts round robin.
HostOf(f) == ((f - 1) % NumHosts) + 1

Min(a, b) == IF a <= b THEN a ELSE b
SetMax(S) == CHOOSE x \in S : \A y \in S : y <= x

\* ------------------------------------------------- the server's answers
\* An upstream entry as feedparser delivers it: guid and published.
Entry(g, p) == [guid |-> g, published |-> p]

\* kind "response": client.get returned; "timeout"/"neterr": it raised.
\* retry_after = 0 stands for no usable Retry-After header.
Response(k, s, e, m, b, ra) ==
  [kind |-> k, status |-> s, etag |-> e, last_modified |-> m,
   body |-> b, retry_after |-> ra]

Responses ==
  { Response("response", 200, "x", "m", <<Entry("a", 1)>>, 0),
    Response("response", 200, "y", "", <<Entry("b", None)>>, 0),
    Response("response", 200, "y", "", <<>>, 0) }
  \cup { Response("response", 304, "y", "", <<>>, 0) }
  \cup { Response("response", s, "", "", <<>>, 0) : s \in {404, 429, 500} }
  \cup { Response("response", 429, "", "", <<>>, d) : d \in 1..MaxRetryAfter }
  \cup { Response(k, 0, "", "", <<>>, 0) : k \in {"timeout", "neterr"} }

\* --------------------------------------------------------------- state
VARIABLES
  now,        \* wall clock, in seconds
  feed,       \* the feed table: feed id -> row
  item,       \* the item table: sequence of rows in rowid order
  fetchlog,   \* the fetchlog table: sequence of rows
  sem,        \* RateLimiter.semaphore._value
  buckets,    \* RateLimiter.buckets: host -> TokenBucket
  job,        \* the running instance of each scheduler job
  oneshot,    \* date-trigger jobs in the scheduler's job table
  feed_jobs,  \* FeedScheduler.feed_jobs (its key set)
  retry_after_delays, \* RateLimiter.retry_after_delays: host -> delay
  fetch_errors_total, \* metrics: feeder_fetch_errors_total, per host
  ticks,      \* number of ticks fired so far
  last,       \* history: the latest event of a job (fired, ended)
  served      \* history: per feed, the validators its last run was answered

vars == <<now, feed, item, fetchlog, sem, buckets, job, oneshot, feed_jobs,
          retry_after_delays, fetch_errors_total, ticks, last, served>>

\* ------------------------------------------------------------ storage.py
\* Feed(): the column defaults of a new row.
NewFeed(en) ==
  [enabled |-> en, last_etag |-> "", last_modified |-> "",
   last_fetch_status |-> "pending", last_fetch_time |-> None,
   is_fetching |-> FALSE, consecutive_errors |-> 0,
   backoff_multiplier_halves |-> 2,
   last_published_time |-> None, degraded |-> FALSE]

\* Mutant: an empty validator overwrites the stored one.
update_feed_status_overwrites(fd, f, status, etag, last_modified, t) ==
  [fd EXCEPT ![f] =
     [@ EXCEPT !.last_fetch_status = status,
               !.last_fetch_time = t,
               !.last_etag = etag,
               !.last_modified = last_modified]]

update_feed_status(fd, f, status, etag, last_modified, t) ==
  [fd EXCEPT ![f] =
     [@ EXCEPT !.last_fetch_status = status,
               !.last_fetch_time = t,
               !.last_etag = IF etag # "" THEN etag ELSE @,
               !.last_modified = IF last_modified # "" THEN last_modified ELSE @]]

\* Mutant: the lock is taken without the test.
CanLockUntested(fd, f) == TRUE

\* The lock test of acquire_feed_lock: the row exists and is not fetching.
CanLock(fd, f) == ~fd[f].is_fetching

acquire_feed_lock(fd, f) ==
  IF CanLock(fd, f) THEN [fd EXCEPT ![f].is_fetching = TRUE] ELSE fd

\* Mutant: the flag is not cleared.
release_feed_lock_skipped(fd, f) == fd

release_feed_lock(fd, f) == [fd EXCEPT ![f].is_fetching = FALSE]

\* Mutant: the multiplier grows without the cap of 4.0.
update_adaptive_backoff_uncapped(fd, f, success) ==
  IF success
  THEN [fd EXCEPT ![f] = [@ EXCEPT !.consecutive_errors = 0,
                                   !.backoff_multiplier_halves = 2]]
  ELSE [fd EXCEPT ![f] =
          [@ EXCEPT !.consecutive_errors = @ + 1,
                    !.backoff_multiplier_halves =
                        2 + (fd[f].consecutive_errors + 1)]]

\* backoff_multiplier is kept in halves: min(4.0, 1.0 + 0.5 * errors).
update_adaptive_backoff(fd, f, success) ==
  IF success
  THEN [fd EXCEPT ![f] = [@ EXCEPT !.consecutive_errors = 0,
                                   !.backoff_multiplier_halves = 2]]
  ELSE [fd EXCEPT ![f] =
          [@ EXCEPT !.consecutive_errors = @ + 1,
                    !.backoff_multiplier_halves =
                        Min(8, 2 + (fd[f].consecutive_errors + 1))]]

update_feed_published_time(fd, f, published_time) ==
  IF published_time # None
  THEN [fd EXCEPT ![f] = [@ EXCEPT !.last_published_time = published_time,
                                   !.degraded = FALSE]]
  ELSE fd

\* The test of check_and_degrade_feeds at time t, cutoff t - ttl.
Stale(fd, f, t) ==
  fd[f].last_published_time # None /\ fd[f].last_published_time < t - ttl_hours

\* check_and_degrade_feeds when every comparison succeeds: the table
\* afterwards and the count it returns.
check_and_degrade_feeds(fd, t) ==
  [feed |-> [f \in Feeds |->
               IF Stale(fd, f, t) THEN [fd[f] EXCEPT !.degraded = TRUE]
               ELSE fd[f]],
   count |-> Cardinality({f \in Feeds : Stale(fd, f, t) /\ ~fd[f].degraded})]

log_fetch(lg, f, status_code, items_found, items_new, error_message) ==
  Append(lg, [feed_id |-> f, status_code |-> status_code,
              items_found |-> items_found, items_new |-> items_new,
              error_message |-> error_message])

Guids(its) == {its[i].guid : i \in DOMAIN its}

\* Mutant: the lookup sees only the rows stored before the call, not the
\* rows added earlier in the same batch.
RECURSIVE InsertAllNoFlush(_, _, _)
InsertAllNoFlush(its, batch, f) ==
  IF batch = <<>> THEN its
  ELSE LET e == batch[Len(batch)]
           sofar == InsertAllNoFlush(its, SubSeq(batch, 1, Len(batch) - 1), f)
       IN IF e.guid \in Guids(its) THEN sofar
          ELSE Append(sofar, [guid |-> e.guid, feed_id |-> f,
                              published |-> e.published])

\* The insert loop of add_items: a row is added iff no row has its guid
\* (the session autoflushes, so a guid seen earlier in the batch counts).
RECURSIVE InsertAll(_, _, _)
InsertAll(its, batch, f) ==
  IF batch = <<>> THEN its
  ELSE LET e == Head(batch)
           nxt == IF e.guid \in Guids(its) THEN its
                  ELSE Append(its, [guid |-> e.guid, feed_id |-> f,
                                    published |-> e.published])
       IN InsertAll(nxt, Tail(batch), f)

\* ORDER BY published ASC: NULL sorts first, ties follow the rowid.
PubKey(p) == p
\* Mutant: the cleanup orders by published descending.
BeforeNewestFirst(its, i, k) ==
  \/ its[i].published > its[k].published
  \/ its[i].published = its[k].published /\ i < k

Before(its, i, k) ==
  \/ PubKey(its[i].published) < PubKey(its[k].published)
  \/ PubKey(its[i].published) = PubKey(its[k].published) /\ i < k
Rank(its, i) == Cardinality({k \in DOMAIN its : Before(its, k, i)})

RECURSIVE KeepFrom(_, _, _)
KeepFrom(its, i, excess) ==
  IF i > Len(its) THEN <<>>
  ELSE IF Rank(its, i) < excess THEN KeepFrom(its, i + 1, excess)
  ELSE <<its[i]>> \o KeepFrom(its, i + 1, excess)

\* The cleanup of add_items: delete the `excess` first rows of the order.
Evict(its) ==
  IF Len(its) > MAX_ITEMS THEN KeepFrom(its, 1, Len(its) - MAX_ITEMS) ELSE its

add_items(its, batch, f) ==
  LET ins == InsertAll(its, batch, f)
  IN [items |-> Evict(ins), new_count |-> Len(ins) - Len(its)]

\* --------------------------------------------------------- rate_limit.py
\* The level of a bucket after the refill of TokenBucket.acquire at time t.
Refilled(b, t) ==
  Min(2 * capacity, b.tokens + (t - b.last_update) * PER_HOST_RPS_HALVES)

\* Mutant: a granted acquire leaves the token in the bucket.
bucket_acquire_keeps_token(b, t) ==
  [ok |-> Refilled(b, t) >= 2,
   bucket |-> [tokens |-> Refilled(b, t), last_update |-> t]]

\* TokenBucket.acquire at time t: refill by the elapsed time, then take one
\* token if there is one.
bucket_acquire(b, t) ==
  LET level == Min(2 * capacity,
                   b.tokens + (t - b.last_update) * PER_HOST_RPS_HALVES)
  IN IF level >= 2
     THEN [ok |-> TRUE, bucket |-> [tokens |-> level - 2, last_update |-> t]]
     ELSE [ok |-> FALSE, bucket |-> [tokens |-> level, last_update |-> t]]

\* RateLimiter.acquire once the semaphore is free (sem > 0): take a permit,
\* try the host bucket, give the permit back when the bucket is empty.
\* Yields the result, the semaphore value and the bucket afterwards.
rate_limiter_acquire(s, b, t) ==
  LET r == bucket_acquire(b, t)
  IN [ok |-> r.ok, sem |-> IF r.ok THEN s - 1 ELSE (s - 1) + 1, bucket |-> r.bucket]

\* RateLimiter.release / release_rate_limit.
release_rate_limit(s) == s + 1

\* RateLimiter.set_retry_after: the delay is stored as it is given.
set_retry_after(rad, h, d) == [rad EXCEPT ![h] = d]

\* The cooldown test of RateLimiter.acquire: an entry for the host, > 0.
HasCooldown(rad, h) == rad[h] # None /\ rad[h] > 0

\* ------------------------------------------------------------ fetcher.py
FetchResult(s, c, e, m, err) ==
  [status |-> s, content |-> c, etag |-> e, last_modified |-> m, error |-> err]
is_not_modified(res) == res.status = 304
is_success(res) == 200 <= res.status /\ res.status < 300

\* What fetch_with_backoff returns when _fetch gives up on an exception.
GiveUpResult(kind) ==
  CASE kind = "timeout" -> FetchResult(408, <<>>, "", "", "Request timeout")
    [] kind = "neterr"  -> FetchResult(0, <<>>, "", "", "Request error")
    [] kind = "429"     -> FetchResult(429, <<>>, "", "", "HTTP 429")
    [] OTHER            -> FetchResult(0, <<>>, "", "", "Unexpected error")

\* ------------------------------------------------------------- parser.py
\* parse_feed_content: at most 100 entries, one ParsedItem per entry.
parse_feed_content(f, content) == SubSeq(content, 1, Min(Len(content), 100))

\* metrics.record_fetch_metrics, the counter feeder_fetch_errors_total of
\* the host (summed over its reason label): "if status_code >= 400".
record_fetch_metrics(m, host, status_code) ==
  IF status_code >= 400 THEN [m EXCEPT ![host] = @ + 1] ELSE m

\* Each branch below ends in a record of the tables it leaves and of the
\* status code it passes to record_fetch_metrics (recorded).
\* ---------------------------------------------------------- scheduler.py
\* The except branch of _fetch_feed_job.
ExceptBranch(fd, its, lg, f, msg, t) ==
  [feed |-> update_adaptive_backoff(
              update_feed_status(fd, f, "error", "", "", t), f, FALSE),
   item |-> its,
   fetchlog |-> log_fetch(lg, f, 0, 0, 0, msg),
   recorded |-> 0]

\* The branch of a 2xx result with items.
ItemsBranch(fd, its, lg, f, res, parsed, t) ==
  LET added == add_items(its, parsed, f)
      pubs == {parsed[i].published : i \in DOMAIN parsed} \ {None}
  IN IF pubs = {}
     THEN \* max([]) raises ValueError; add_items has committed
          ExceptBranch(fd, added.items, lg, f, "ValueError", t)
     ELSE [feed |-> update_adaptive_backoff(
                      update_feed_status(
                        update_feed_published_time(fd, f, SetMax(pubs)),
                        f, "success", res.etag, res.last_modified, t),
                      f, TRUE),
           item |-> added.items,
           fetchlog |-> log_fetch(lg, f, res.status, Len(parsed),
                                  added.new_count, ""),
           recorded |-> res.status]

\* Mutant: a body without items is handled like a failed fetch.
NoItemsBranchAsError(fd, its, lg, f, res, t) ==
  [feed |-> update_adaptive_backoff(
              update_feed_status(fd, f, "error", "", "", t), f, FALSE),
   item |-> its,
   fetchlog |-> log_fetch(lg, f, res.status, 0, 0, ""),
   recorded |-> res.status]

\* The branch of a 2xx result whose body parsed to no items.
NoItemsBranch(fd, its, lg, f, res, t) ==
  [feed |-> update_adaptive_backoff(
              update_feed_status(fd, f, "no_items", "", "", t), f, TRUE),
   item |-> its,
   fetchlog |-> log_fetch(lg, f, res.status, 0, 0, ""),
   recorded |-> res.status]

\* Mutant: the error branch leaves the adaptive backoff alone.
ErrorBranchNoBackoff(fd, its, lg, f, res, t) ==
  [feed |-> update_feed_status(fd, f, "error", "", "", t),
   item |-> its,
   fetchlog |-> log_fetch(lg, f, res.status, 0, 0, res.error),
   recorded |-> res.status]

\* The branch of a result that is neither 304 nor 2xx.
ErrorBranch(fd, its, lg, f, res, t) ==
  [feed |-> update_adaptive_backoff(
              update_feed_status(fd, f, "error", "", "", t), f, FALSE),
   item |-> its,
   fetchlog |-> log_fetch(lg, f, res.status, 0, 0, res.error),
   recorded |-> res.status]

\* The try block of _fetch_feed_job from the fetch result on.
TryBlock(fd, its, lg, f, res, t) ==
  IF is_not_modified(res)
  THEN [feed |-> update_adaptive_backoff(
                   update_feed_status(fd, f, "not_modified", "", "", t), f, TRUE),
        item |-> its,
        fetchlog |-> log_fetch(lg, f, 304, 0, 0, ""),
        recorded |-> 304]
  ELSE IF is_success(res)
  THEN LET parsed == parse_feed_content(f, res.content)
       IN IF parsed # <<>>
          THEN ItemsBranch(fd, its, lg, f, res, parsed, t)
          ELSE NoItemsBranch(fd, its, lg, f, res, t)
  ELSE ErrorBranch(fd, its, lg, f, res, t)

\* The finally clause: the lock is released whatever the try block did.
JobTail(fd, its, lg, f, res, t) ==
  LET r == TryBlock(fd, its, lg, f, res, t)
  IN [r EXCEPT !.feed = release_feed_lock(r.feed, f)]

\* ------------------------------------------------------------- the jobs
\* A job instance.  pc is where its coroutine is suspended:
\*   idle      not running
\*   sem_wait  in semaphore.acquire()
\*   rl_sleep  in asyncio.sleep(1) after respect_rate_limit returned false
\*   http      in client.get(url)
\*   ra_sleep  in asyncio.sleep(delay) after a 429 with Retry-After
\*   bo_sleep  in the sleep of the retry decorator
\* tries counts the attempts of the retry decorator, got is what
\* respect_rate_limit returned in this attempt, req_etag/req_lm are the
\* arguments of fetch_feed (the conditional headers of every attempt).
IdleJob ==
  [pc |-> "idle", tries |-> 0, got |-> FALSE, wake |-> 0,
   req_etag |-> "", req_lm |-> ""]

\* An event of job j: ev is "dropped" (the tick found the lock taken),
\* "disabled" (it found the feed disabled), "started" (it began to fetch)
\* or "done" (the run ended after its fetch returned).  n is the number of
\* the tick, status what the fetch returned, found the guids of the entries
\* of its body and rows the number of FetchLog rows the run appended.
Event(ev, j, n, status, found, rows) ==
  [ev |-> ev, job |-> j, n |-> n, status |-> status, found |-> found,
   rows |-> rows]

NoValidators == [etag |-> "", last_modified |-> ""]

Running(j) == job[j].pc # "idle"

\* A sleep that ends at time w is over; the clock stops at MaxTime, which
\* stands for every later time.
Due(w) == now >= w \/ now = MaxTime

\* The job is in the scheduler's job table.
InTable(j) == IF j[2] = "periodic" THEN j[1] \in feed_jobs ELSE j \in oneshot

Init ==
  /\ now = 0
  /\ feed \in [Feeds -> {NewFeed(TRUE), NewFeed(FALSE)}]
  /\ item = <<>>
  /\ fetchlog = <<>>
  /\ sem = GLOBAL_CONCURRENCY
  /\ buckets = [h \in Hosts |-> [tokens |-> 2 * capacity, last_update |-> 0]]
  /\ job = [j \in Jobs |-> IdleJob]
  /\ oneshot = {<<f, "immediate", 0>> : f \in Feeds}
  /\ feed_jobs = Feeds
  /\ retry_after_delays = [h \in Hosts |-> None]
  /\ fetch_errors_total = [h \in Hosts |-> 0]
  /\ ticks = 0
  /\ last = Event("none", <<>>, 0, 0, {}, 0)
  /\ served = [f \in Feeds |-> NoValidators]

\* One attempt of _fetch up to its first suspension: respect_rate_limit,
\* then either the request goes out or the coroutine sleeps or waits.
\* No step of a fetch calls set_retry_after, so retry_after_delays stays
\* empty wherever fetches are all that runs and the cooldown test of
\* acquire is passed over here; CooldownSpec has it.
StartAttempt(j, jr) ==
  IF sem > 0
  THEN LET h == HostOf(j[1])
           r == rate_limiter_acquire(sem, buckets[h], now)
       IN /\ sem' = r.sem
          /\ buckets' = [buckets EXCEPT ![h] = r.bucket]
          /\ job' = [job EXCEPT ![j] =
                       IF r.ok
                       THEN [jr EXCEPT !.pc = "http", !.got = TRUE]
                       ELSE [jr EXCEPT !.pc = "rl_sleep", !.got = FALSE,
                                       !.wake = now + 1]]
  ELSE /\ job' = [job EXCEPT ![j] = [jr EXCEPT !.pc = "sem_wait"]]
       /\ UNCHANGED <<sem, buckets>>

\* Mutant: the lock test sits inside the try block, so the finally clause
\* releases a lock the tick never held.
DroppedTickReleases(fd, f) == release_feed_lock(fd, f)

\* What a tick that found the lock taken does to the feed table: nothing.
DroppedTick(fd, f) == fd

\* A tick fires and acquire_feed_lock fails: the job returns at once.
FireDropped(j) ==
  /\ ticks < MaxTicks /\ InTable(j) /\ ~Running(j)
  /\ ~CanLock(feed, j[1])
  /\ feed' = DroppedTick(feed, j[1])
  /\ oneshot' = oneshot \ {j}
  /\ ticks' = ticks + 1
  /\ last' = Event("dropped", j, ticks + 1, 0, {}, 0)
  /\ UNCHANGED <<now, item, fetchlog, sem, buckets, job, feed_jobs, retry_after_delays,
                 fetch_errors_total, served>>

\* Mutant: the job does not test the enabled flag.
NotEnabledUntested(fd, f) == FALSE

\* "if not feed or not feed.enabled": the job returns before it fetches.
\* Every job of the table has its row, since no code deletes a feed.
NotEnabled(fd, f) == ~fd[f].enabled

\* A tick fires, the lock is acquired, the feed is disabled: return, and
\* the finally clause releases the lock.
FireDisabled(j) ==
  /\ ticks < MaxTicks /\ InTable(j) /\ ~Running(j)
  /\ CanLock(feed, j[1])
  /\ NotEnabled(feed, j[1])
  /\ feed' = release_feed_lock(acquire_feed_lock(feed, j[1]), j[1])
  /\ oneshot' = oneshot \ {j}
  /\ ticks' = ticks + 1
  /\ last' = Event("disabled", j, ticks + 1, 0, {}, 0)
  /\ UNCHANGED <<now, item, fetchlog, sem, buckets, job, feed_jobs, retry_after_delays,
                 fetch_errors_total, served>>

\* A tick fires, the lock is acquired and fetch_feed starts with the
\* validators stored for the feed.
FireFetch(j) ==
  /\ ticks < MaxTicks /\ InTable(j) /\ ~Running(j)
  /\ CanLock(feed, j[1])
  /\ ~NotEnabled(feed, j[1])
  /\ feed' = acquire_feed_lock(feed, j[1])
  /\ StartAttempt(j, [IdleJob EXCEPT !.tries = 1,
                                     !.req_etag = feed[j[1]].last_etag,
                                     !.req_lm = feed[j[1]].last_modified])
  /\ oneshot' = oneshot \ {j}
  /\ ticks' = ticks + 1
  /\ last' = Event("started", j, ticks + 1, 0, {}, 0)
  /\ UNCHANGED <<now, item, fetchlog, feed_jobs, retry_after_delays,
                 fetch_errors_total, served>>

\* A date-trigger job comes due while its previous instance still runs:
\* the scheduler skips the run and drops the job from its table.
SkipTick(j) ==
  /\ j \in oneshot /\ Running(j)
  /\ oneshot' = oneshot \ {j}
  /\ UNCHANGED <<now, feed, item, fetchlog, sem, buckets, job, feed_jobs, retry_after_delays,
                 fetch_errors_total,
                 ticks, last, served>>

\* semaphore.acquire() returns.
SemGranted(j) ==
  /\ job[j].pc = "sem_wait"
  /\ sem > 0
  /\ StartAttempt(j, job[j])
  /\ UNCHANGED <<now, feed, item, fetchlog, oneshot, feed_jobs, retry_after_delays,
                 fetch_errors_total, ticks, last, served>>

\* asyncio.sleep(1) returns and the request is sent all the same.
RlWake(j) ==
  /\ job[j].pc = "rl_sleep"
  /\ Due(job[j].wake)
  /\ job' = [job EXCEPT ![j].pc = "http"]
  /\ UNCHANGED <<now, feed, item, fetchlog, sem, buckets, oneshot, feed_jobs, retry_after_delays,
                 fetch_errors_total,
                 ticks, last, served>>

\* fetch_feed returned res: the rest of the job runs without suspending.
Finish(j, res) ==
  LET f == j[1]
      r == JobTail(feed, item, fetchlog, f, res, now)
  IN /\ feed' = r.feed
     /\ item' = r.item
     /\ fetchlog' = r.fetchlog
     /\ fetch_errors_total' =
          record_fetch_metrics(fetch_errors_total, HostOf(f), r.recorded)
     /\ job' = [job EXCEPT ![j] = IdleJob]
     /\ last' = Event("done", j, ticks, res.status, Guids(res.content),
                      Len(r.fetchlog) - Len(fetchlog))
     /\ served' = [served EXCEPT ![f] =
                     IF res.status = 200
                     THEN [etag |-> res.etag, last_modified |-> res.last_modified]
                     ELSE NoValidators]

\* Mutant: the attempt that used up the budget is retried once more.
MayRetryOffByOne(tries) == tries <= RETRY_MAX_ATTEMPTS

\* on_exception(max_tries=RETRY_MAX_ATTEMPTS): attempts are left.
MayRetry(tries) == tries < RETRY_MAX_ATTEMPTS

\* _fetch raised an exception the retry decorator handles: retry while
\* attempts are left, else fetch_with_backoff turns it into a FetchResult.
\* The decorator is given jitter=random.uniform(0.1, 0.3), a number where
\* the library expects a function: whether it then sleeps and retries or
\* fails computing the wait (an exception fetch_with_backoff turns into a
\* status 0 result) is up to the installed library, so both can happen.
Raise(j, kind) ==
  IF MayRetry(job[j].tries)
  THEN \/ /\ job' = [job EXCEPT ![j].pc = "bo_sleep", ![j].got = FALSE,
                                 ![j].wake = now + 1]
          /\ UNCHANGED <<feed, item, fetchlog, fetch_errors_total, last, served>>
       \/ Finish(j, GiveUpResult("unexpected"))
  ELSE Finish(j, GiveUpResult(kind))

\* client.get raised (timeout or transport error); finally releases.
RespondRaise(j, r) ==
  /\ job[j].pc = "http"
  /\ r.kind \in {"timeout", "neterr"}
  /\ sem' = release_rate_limit(sem)
  /\ Raise(j, r.kind)
  /\ UNCHANGED <<now, buckets, oneshot, feed_jobs, retry_after_delays, ticks>>

\* 429 with a Retry-After delay: sleep it out inside the try block.
RespondRetryAfter(j, r) ==
  /\ job[j].pc = "http"
  /\ r.kind = "response" /\ r.status = 429 /\ r.retry_after > 0
  /\ job' = [job EXCEPT ![j].pc = "ra_sleep", ![j].wake = now + r.retry_after]
  /\ UNCHANGED <<now, feed, item, fetchlog, sem, buckets, oneshot, feed_jobs, retry_after_delays,
                 fetch_errors_total,
                 ticks, last, served>>

\* Any other response is returned as a FetchResult; finally releases.
RespondReturn(j, r) ==
  /\ job[j].pc = "http"
  /\ r.kind = "response" /\ ~(r.status = 429 /\ r.retry_after > 0)
  /\ sem' = release_rate_limit(sem)
  /\ Finish(j, FetchResult(r.status, r.body, r.etag, r.last_modified, ""))
  /\ UNCHANGED <<now, buckets, oneshot, feed_jobs, retry_after_delays, ticks>>

\* The Retry-After sleep is over: raise HTTPStatusError; finally releases.
RaWake(j) ==
  /\ job[j].pc = "ra_sleep"
  /\ Due(job[j].wake)
  /\ sem' = release_rate_limit(sem)
  /\ Raise(j, "429")
  /\ UNCHANGED <<now, buckets, oneshot, feed_jobs, retry_after_delays, ticks>>

\* The retry decorator's sleep is over: next attempt.
BoWake(j) ==
  /\ job[j].pc = "bo_sleep"
  /\ Due(job[j].wake)
  /\ StartAttempt(j, [job[j] EXCEPT !.tries = @ + 1])
  /\ UNCHANGED <<now, feed, item, fetchlog, oneshot, feed_jobs, retry_after_delays,
                 fetch_errors_total, ticks, last, served>>

\* FeedScheduler.refresh_feed: a date-trigger job named after the second.
refresh_feed(f) ==
  /\ f \in feed_jobs
  /\ <<f, "manual", now>> \notin oneshot
  /\ ticks + Cardinality({j \in oneshot : j[2] = "manual"}) < MaxTicks
  /\ oneshot' = oneshot \cup {<<f, "manual", now>>}
  /\ UNCHANGED <<now, feed, item, fetchlog, sem, buckets, job, feed_jobs, retry_after_delays,
                 fetch_errors_total,
                 ticks, last, served>>

\* A second passes.
Tick ==
  /\ now < MaxTime
  /\ now' = now + 1
  /\ UNCHANGED <<feed, item, fetchlog, sem, buckets, job, oneshot, feed_jobs, retry_after_delays,
                 fetch_errors_total,
                 ticks, last, served>>

JobStep(j) ==
  \/ SemGranted(j)
  \/ RlWake(j)
  \/ \E r \in Responses : RespondRaise(j, r)
  \/ \E r \in Responses : RespondRetryAfter(j, r)
  \/ \E r \in Responses : RespondReturn(j, r)
  \/ RaWake(j)
  \/ BoWake(j)

Next ==
  \/ Tick
  \/ \E f \in Feeds : refresh_feed(f)
  \/ \E j \in Jobs : FireDropped(j)
  \/ \E j \in Jobs : FireDisabled(j)
  \/ \E j \in Jobs : FireFetch(j)
  \/ \E j \in Jobs : SkipTick(j)
  \/ \E j \in Jobs : JobStep(j)

Spec == Init /\ [][Next]_vars

\* The steps of the run of feed f; at most one job of a feed runs at a time.
FeedStep(f) == \E j \in JobsOf(f) : JobStep(j)

\* The event loop runs every coroutine that can run, every request ends
\* (the client enforces its timeout) and time passes.

FairSpec == Spec /\ WF_vars(Tick) /\ \A f \in Feeds : WF_vars(FeedStep(f))

\* ------------------------------------------------ one feed, run by run
\* The executions of feed 1 one after the other, each from its tick to the
\* release of the lock with nothing in between: what fetch_feed returned
\* is drawn from SerialResults.  It reaches long rows of failures, which
\* the interleaved specification bounds by MaxTicks.
SerialResults ==
  { FetchResult(200, <<Entry("a", 1)>>, "x", "m", ""),
    FetchResult(200, <<Entry("b", None)>>, "y", "", ""),
    FetchResult(304, <<>>, "", "", ""),
    FetchResult(500, <<>>, "", "", ""),
    GiveUpResult("neterr") }

SerialInit ==
  /\ now = 0
  /\ feed = [f \in Feeds |-> NewFeed(TRUE)]
  /\ item = <<>>
  /\ fetchlog = <<>>
  /\ sem = GLOBAL_CONCURRENCY
  /\ buckets = [h \in Hosts |-> [tokens |-> 2 * capacity, last_update |-> 0]]
  /\ job = [j \in Jobs |-> IdleJob]
  /\ oneshot = {}
  /\ feed_jobs = Feeds
  /\ retry_after_delays = [h \in Hosts |-> None]
  /\ fetch_errors_total = [h \in Hosts |-> 0]
  /\ ticks = 0
  /\ last = Event("none", <<>>, 0, 0, {}, 0)
  /\ served = [f \in Feeds |-> NoValidators]

\* One execution of _fetch_feed_job for feed 1 whose fetch returned res.
SerialRun(res) ==
  /\ ticks < MaxRuns
  /\ CanLock(feed, 1)
  /\ LET r == JobTail(acquire_feed_lock(feed, 1), item, fetchlog, 1, res, now)
     IN /\ feed' = r.feed
        /\ item' = r.item
        /\ fetchlog' = r.fetchlog
        /\ fetch_errors_total' =
             record_fetch_metrics(fetch_errors_total, HostOf(1),
                                  r.recorded)
        /\ last' = Event("done", <<1, "periodic", 0>>, ticks + 1, res.status,
                         Guids(res.content), Len(r.fetchlog) - Len(fetchlog))
  /\ ticks' = ticks + 1
  /\ UNCHANGED <<now, sem, buckets, job, oneshot, feed_jobs, retry_after_delays, served>>

SerialNext == \E res \in SerialResults : SerialRun(res)

SerialSpec == SerialInit /\ [][SerialNext]_vars

\* ------------------------------------------------------ the item store
\* Storage.add_items called again and again, with every batch of up to
\* MaxBatch entries, from the empty table on.
StoreGuids == {"a", "b", "c"}
StoreEntries == {Entry(g, p) : g \in StoreGuids, p \in {None} \cup (1..MaxPub)}
Batches == UNION {[1..n -> StoreEntries] : n \in 0..MaxBatch}

\* What the latest add_items call did: the size of its batch, the count it
\* returned and the number of rows its cleanup deleted.
StoreEvent(f, batch_len, new_count, evicted) ==
  [ev |-> "add_items", job |-> <<f, "store", 0>>, batch_len |-> batch_len,
   new_count |-> new_count, evicted |-> evicted]

StoreInit ==
  /\ now = 0
  /\ feed = [f \in Feeds |-> NewFeed(TRUE)]
  /\ item = <<>>
  /\ fetchlog = <<>>
  /\ sem = GLOBAL_CONCURRENCY
  /\ buckets = [h \in Hosts |-> [tokens |-> 2 * capacity, last_update |-> 0]]
  /\ job = [j \in Jobs |-> IdleJob]
  /\ oneshot = {}
  /\ feed_jobs = Feeds
  /\ retry_after_delays = [h \in Hosts |-> None]
  /\ fetch_errors_total = [h \in Hosts |-> 0]
  /\ ticks = 0
  /\ last = StoreEvent(1, 0, 0, 0)
  /\ served = [f \in Feeds |-> NoValidators]

\* storage.add_items(items_data) with the parsed items of feed f.
StoreAdd(f, batch) ==
  LET r == add_items(item, batch, f)
  IN /\ item' = r.items
     /\ last' = StoreEvent(f, Len(batch), r.new_count,
                           Len(item) + r.new_count - Len(r.items))
     /\ UNCHANGED <<now, feed, fetchlog, sem, buckets, job, oneshot,
                    feed_jobs, retry_after_delays,
                 fetch_errors_total, ticks, served>>

StoreNext == \E f \in Feeds, batch \in Batches : StoreAdd(f, batch)

StoreSpec == StoreInit /\ [][StoreNext]_vars

\* ------------------------------------- the item store, commit by commit
\* add_items commits twice: after the insert loop (session.commit() before
\* the cleanup) and after the deletes of the cleanup.  Here item is the
\* committed content of the table, one action per commit, and a statement
\* of either part may raise (a row the table rejects, a locked database):
\* the session is closed and what was not committed is rolled back.
\* `before` is the table when the call began.
TxEvent(ev, f, batch_len, new_count, evicted, before) ==
  [ev |-> ev, job |-> <<f, "store", 0>>, batch_len |-> batch_len,
   new_count |-> new_count, evicted |-> evicted, before |-> before]

TxInit ==
  /\ now = 0
  /\ feed = [f \in Feeds |-> NewFeed(TRUE)]
  /\ item = <<>>
  /\ fetchlog = <<>>
  /\ sem = GLOBAL_CONCURRENCY
  /\ buckets = [h \in Hosts |-> [tokens |-> 2 * capacity, last_update |-> 0]]
  /\ job = [j \in Jobs |-> IdleJob]
  /\ oneshot = {}
  /\ feed_jobs = Feeds
  /\ retry_after_delays = [h \in Hosts |-> None]
  /\ fetch_errors_total = [h \in Hosts |-> 0]
  /\ ticks = 0
  /\ last = TxEvent("add_items", 1, 0, 0, 0, <<>>)
  /\ served = [f \in Feeds |-> NoValidators]

\* The insert loop ran through and its commit succeeded.
TxInsert(f, batch) ==
  /\ last.ev # "committed"
  /\ item' = InsertAll(item, batch, f)
  /\ last' = TxEvent("committed", f, Len(batch), Len(item') - Len(item), 0, item)
  /\ UNCHANGED <<now, feed, fetchlog, sem, buckets, job, oneshot, feed_jobs, retry_after_delays,
                 fetch_errors_total,
                 ticks, served>>

\* A statement of the insert loop, or its commit, raised: nothing of the
\* batch is committed.
TxInsertFails(f, batch) ==
  /\ last.ev # "committed"
  /\ batch # <<>>
  /\ item' = item
  /\ last' = TxEvent("failed", f, Len(batch), 0, 0, item)
  /\ UNCHANGED <<now, feed, fetchlog, sem, buckets, job, oneshot, feed_jobs, retry_after_delays,
                 fetch_errors_total,
                 ticks, served>>

\* The cleanup ran through: its deletes are committed and add_items returns.
TxCleanup ==
  /\ last.ev = "committed"
  /\ item' = Evict(item)
  /\ last' = [last EXCEPT !.ev = "add_items",
                          !.evicted = Len(item) - Len(item')]
  /\ UNCHANGED <<now, feed, fetchlog, sem, buckets, job, oneshot, feed_jobs, retry_after_delays,
                 fetch_errors_total,
                 ticks, served>>

\* A statement of the cleanup, or its commit, raised: the deletes are
\* rolled back, the inserts were committed before.
TxCleanupFails ==
  /\ last.ev = "committed"
  /\ item' = item
  /\ last' = [last EXCEPT !.ev = "failed"]
  /\ UNCHANGED <<now, feed, fetchlog, sem, buckets, job, oneshot, feed_jobs, retry_after_delays,
                 fetch_errors_total,
                 ticks, served>>

TxNext ==
  \/ \E f \in Feeds, batch \in Batches : TxInsert(f, batch)
  \/ \E f \in Feeds, batch \in Batches : TxInsertFails(f, batch)
  \/ TxCleanup
  \/ TxCleanupFails

TxSpec == TxInit /\ [][TxNext]_vars

\* ------------------------------------------------ the degradation sweep
\* Whole job runs of every feed, the hourly sweep and the clock.
SweepResults ==
  { FetchResult(200, <<Entry("a", p)>>, "x", "", "") : p \in 0..MaxClock }
  \cup { FetchResult(200, <<Entry("b", None)>>, "y", "", ""),
         FetchResult(304, <<>>, "", "", ""),
         FetchResult(500, <<>>, "", "", "") }

\* The sweep ended: count is what check_and_degrade_feeds returned, raised
\* tells that it raised instead.
SweepEvent(n, count, raised) ==
  [ev |-> "sweep", job |-> <<>>, n |-> n, count |-> count, raised |-> raised]

SweepInit ==
  /\ now = 0
  /\ feed = [f \in Feeds |-> NewFeed(TRUE)]
  /\ item = <<>>
  /\ fetchlog = <<>>
  /\ sem = GLOBAL_CONCURRENCY
  /\ buckets = [h \in Hosts |-> [tokens |-> 2 * capacity, last_update |-> 0]]
  /\ job = [j \in Jobs |-> IdleJob]
  /\ oneshot = {}
  /\ feed_jobs = Feeds
  /\ retry_after_delays = [h \in Hosts |-> None]
  /\ fetch_errors_total = [h \in Hosts |-> 0]
  /\ ticks = 0
  /\ last = Event("none", <<>>, 0, 0, {}, 0)
  /\ served = [f \in Feeds |-> NoValidators]

\* One execution of _fetch_feed_job for feed f whose fetch returned res.
SweepRun(f, res) ==
  /\ ticks < MaxSweepSteps
  /\ CanLock(feed, f)
  /\ LET r == JobTail(acquire_feed_lock(feed, f), item, fetchlog, f, res, now)
     IN /\ feed' = r.feed
        /\ item' = r.item
        /\ fetchlog' = r.fetchlog
        /\ fetch_errors_total' =
             record_fetch_metrics(fetch_errors_total, HostOf(f),
                                  r.recorded)
        /\ last' = Event("done", <<f, "periodic", 0>>, ticks + 1, res.status,
                         Guids(res.content), Len(r.fetchlog) - Len(fetchlog))
  /\ ticks' = ticks + 1
  /\ UNCHANGED <<now, sem, buckets, job, oneshot, feed_jobs, retry_after_delays, served>>

\* _degradation_check_job, the sweep running through.
DegradationCheck ==
  /\ ticks < MaxSweepSteps
  /\ LET r == check_and_degrade_feeds(feed, now)
     IN /\ feed' = r.feed
        /\ last' = SweepEvent(ticks + 1, r.count, FALSE)
  /\ ticks' = ticks + 1
  /\ UNCHANGED <<now, item, fetchlog, sem, buckets, job, oneshot, feed_jobs, retry_after_delays,
                 fetch_errors_total,
                 served>>

\* _degradation_check_job, the sweep raising.  The cutoff carries a time
\* zone (datetime.now(ZoneInfo('UTC'))); last_published_time is read back
\* from a SQLite DATETIME column, which stores no offset, and comparing a
\* datetime without a zone to one with a zone raises TypeError.  What the
\* column hands back is up to the database library, so the sweep may also
\* run through (DegradationCheck).  The session is closed without a
\* commit and the job logs the error.
DegradationCheckRaises ==
  /\ ticks < MaxSweepSteps
  /\ \E f \in Feeds : feed[f].last_published_time # None
  /\ last' = SweepEvent(ticks + 1, 0, TRUE)
  /\ ticks' = ticks + 1
  /\ UNCHANGED <<now, feed, item, fetchlog, sem, buckets, job, oneshot,
                 feed_jobs, retry_after_delays,
                 fetch_errors_total, served>>

\* An hour passes.
SweepTick ==
  /\ now < MaxClock
  /\ now' = now + 1
  /\ UNCHANGED <<feed, item, fetchlog, sem, buckets, job, oneshot, feed_jobs, retry_after_delays,
                 fetch_errors_total,
                 ticks, last, served>>

SweepNext ==
  \/ \E f \in Feeds, res \in SweepResults : SweepRun(f, res)
  \/ DegradationCheck
  \/ DegradationCheckRaises
  \/ SweepTick

SweepSpec == SweepInit /\ [][SweepNext]_vars

\* ------------------------------------------- job runs with store faults
\* Whole executions of _fetch_feed_job in which one call of the store may
\* raise (sqlite3 OperationalError, say).  The place of the fault:
\*   none     no call raises
\*   acquire  acquire_feed_lock, before the try statement
\*   try      a call inside the try block, before the block wrote anything
\*   handler  a call inside the try block, then update_feed_status in the
\*            except clause
\*   release  release_feed_lock in the finally clause, after a run without
\*            any other fault
Faults == {"none", "acquire", "try", "handler", "release"}

\* The execution ended: fault is where a call raised, escaped tells that
\* an exception left _fetch_feed_job, rows is the number of FetchLog rows
\* it appended.
FaultEvent(f, n, fault, escaped, rows) ==
  [ev |-> "run", job |-> <<f, "periodic", 0>>, n |-> n, fault |-> fault,
   escaped |-> escaped, rows |-> rows]

\* What one execution for feed f leaves behind, by the place of the fault.
FaultyJob(fd, its, lg, f, res, t, fault) ==
  LET locked == acquire_feed_lock(fd, f)
      e == ExceptBranch(locked, its, lg, f, "OperationalError", t)
  IN CASE fault = "none" ->
            JobTail(locked, its, lg, f, res, t) @@ [escaped |-> FALSE]
       [] fault = "acquire" ->
            [feed |-> fd, item |-> its, fetchlog |-> lg, recorded |-> None,
             escaped |-> TRUE]
       [] fault = "try" ->
            [feed |-> release_feed_lock(e.feed, f), item |-> e.item,
             fetchlog |-> e.fetchlog, recorded |-> e.recorded,
             escaped |-> FALSE]
       [] fault = "handler" ->
            [feed |-> release_feed_lock(locked, f), item |-> its,
             fetchlog |-> lg, recorded |-> None, escaped |-> TRUE]
       [] fault = "release" ->
            LET r == TryBlock(locked, its, lg, f, res, t)
            IN [feed |-> r.feed, item |-> r.item, fetchlog |-> r.fetchlog,
                recorded |-> r.recorded, escaped |-> TRUE]

FaultInit ==
  /\ now = 0
  /\ feed = [f \in Feeds |-> NewFeed(TRUE)]
  /\ item = <<>>
  /\ fetchlog = <<>>
  /\ sem = GLOBAL_CONCURRENCY
  /\ buckets = [h \in Hosts |-> [tokens |-> 2 * capacity, last_update |-> 0]]
  /\ job = [j \in Jobs |-> IdleJob]
  /\ oneshot = {}
  /\ feed_jobs = Feeds
  /\ retry_after_delays = [h \in Hosts |-> None]
  /\ fetch_errors_total = [h \in Hosts |-> 0]
  /\ ticks = 0
  /\ last = Event("none", <<>>, 0, 0, {}, 0)
  /\ served = [f \in Feeds |-> NoValidators]

\* One execution for feed f that found the lock free (or failed to ask).
FaultRun(f, res, fault) ==
  /\ ticks < MaxFaultRuns
  /\ CanLock(feed, f)
  /\ LET r == FaultyJob(feed, item, fetchlog, f, res, now, fault)
     IN /\ feed' = r.feed
        /\ item' = r.item
        /\ fetchlog' = r.fetchlog
        /\ fetch_errors_total' =
             IF r.recorded = None THEN fetch_errors_total
             ELSE record_fetch_metrics(fetch_errors_total, HostOf(f),
                                       r.recorded)
        /\ last' = FaultEvent(f, ticks + 1, fault, r.escaped,
                              Len(r.fetchlog) - Len(fetchlog))
  /\ ticks' = ticks + 1
  /\ UNCHANGED <<now, sem, buckets, job, oneshot, feed_jobs, retry_after_delays, served>>

\* One execution for feed f that found the lock taken and returned.
FaultDropped(f) ==
  /\ ticks < MaxFaultRuns
  /\ ~CanLock(feed, f)
  /\ feed' = DroppedTick(feed, f)
  /\ last' = Event("dropped", <<f, "periodic", 0>>, ticks + 1, 0, {}, 0)
  /\ ticks' = ticks + 1
  /\ UNCHANGED <<now, item, fetchlog, sem, buckets, job, oneshot, feed_jobs, retry_after_delays,
                 fetch_errors_total,
                 served>>

FaultNext ==
  \/ \E f \in Feeds, res \in SerialResults, fault \in Faults :
       FaultRun(f, res, fault)
  \/ \E f \in Feeds : FaultDropped(f)

FaultSpec == FaultInit /\ [][FaultNext]_vars

\* ------------------------------------------------------ manual refresh
\* The feed table holds the feeds of the configuration, which start() gave
\* a periodic job and an entry of feed_jobs, and feeds stored after start
\* by import_opml or the subscriptions route, which call storage.add_feed
\* and leave feed_jobs alone (the subscriptions route calls
\* scheduler.schedule_feed_job, a method FeedScheduler does not have).
\* Here every split of Feeds into the two kinds is an initial state, the
\* immediate jobs have run, and refresh is called for any stored feed.
RefreshInit ==
  /\ now = 0
  /\ feed \in [Feeds -> {NewFeed(TRUE), NewFeed(FALSE)}]
  /\ item = <<>>
  /\ fetchlog = <<>>
  /\ sem = GLOBAL_CONCURRENCY
  /\ buckets = [h \in Hosts |-> [tokens |-> 2 * capacity, last_update |-> 0]]
  /\ job = [j \in Jobs |-> IdleJob]
  /\ oneshot = {}
  /\ feed_jobs \in SUBSET Feeds
  /\ retry_after_delays = [h \in Hosts |-> None]
  /\ fetch_errors_total = [h \in Hosts |-> 0]
  /\ ticks = 0
  /\ last = Event("none", <<>>, 0, 0, {}, 0)
  /\ served = [f \in Feeds |-> NoValidators]

\* The refresh route followed by FeedScheduler.refresh_feed: the feed is
\* in the store; a job is added only when the feed is in feed_jobs.
RefreshCall(f) ==
  /\ ticks + Cardinality({j \in oneshot : j[2] = "manual"}) < MaxTicks
  /\ oneshot' = IF f \in feed_jobs THEN oneshot \cup {<<f, "manual", now>>}
                ELSE oneshot
  /\ last' = Event("refresh", <<f, "manual", now>>, ticks, 0, {}, 0)
  /\ UNCHANGED <<now, feed, item, fetchlog, sem, buckets, job, feed_jobs, retry_after_delays,
                 fetch_errors_total,
                 ticks, served>>

RefreshNext ==
  \/ Tick
  \/ \E f \in Feeds : RefreshCall(f)
  \/ \E j \in Jobs : FireDropped(j)
  \/ \E j \in Jobs : FireDisabled(j)
  \/ \E j \in Jobs : FireFetch(j)
  \/ \E j \in Jobs : SkipTick(j)
  \/ \E j \in Jobs : JobStep(j)

RefreshSpec == RefreshInit /\ [][RefreshNext]_vars

\* ------------------------------------------------------------ shutdown
\* FeedScheduler.stop() calls AsyncIOScheduler.shutdown(), which stops the
\* timer and shuts the executor down; the asyncio executor cannot wait for
\* coroutine jobs and cancels every job that is still running, and
\* nothing in stop() or in the shutdown handler of the web application
\* awaits them.  CancelledError is raised at the await the job is
\* suspended in.  It is not an Exception: neither the except clauses of
\* fetch_with_backoff nor the except clause of _fetch_feed_job catch it,
\* the finally clauses run.
Stopped == last.ev = "stopped"

\* The finally clause of _fetch runs iff the job is inside its try block.
InFetchTry(j) == job[j].pc \in {"http", "ra_sleep"}

\* stop(), with the cancellation of the running jobs.
Stop ==
  /\ ~Stopped
  /\ job' = [j \in Jobs |-> IdleJob]
  /\ sem' = sem + Cardinality({j \in Jobs : InFetchTry(j)})
  /\ feed' = [f \in Feeds |->
               IF \E j \in JobsOf(f) : Running(j)
               THEN release_feed_lock(feed, f)[f] ELSE feed[f]]
  /\ last' = Event("stopped", <<>>, ticks, 0, {}, 0)
  /\ UNCHANGED <<now, item, fetchlog, buckets, oneshot, feed_jobs, retry_after_delays,
                 fetch_errors_total, ticks,
                 served>>

ShutdownInit ==
  /\ now = 0
  /\ feed = [f \in Feeds |-> NewFeed(TRUE)]
  /\ item = <<>>
  /\ fetchlog = <<>>
  /\ sem = GLOBAL_CONCURRENCY
  /\ buckets = [h \in Hosts |-> [tokens |-> 2 * capacity, last_update |-> 0]]
  /\ job = [j \in Jobs |-> IdleJob]
  /\ oneshot = {<<f, "immediate", 0>> : f \in Feeds}
  /\ feed_jobs = Feeds
  /\ retry_after_delays = [h \in Hosts |-> None]
  /\ fetch_errors_total = [h \in Hosts |-> 0]
  /\ ticks = 0
  /\ last = Event("none", <<>>, 0, 0, {}, 0)
  /\ served = [f \in Feeds |-> NoValidators]

\* The scheduler fires ticks until it is stopped.
ShutdownNext ==
  \/ Tick
  \/ \E j \in Jobs : ~Stopped /\ FireDropped(j)
  \/ \E j \in Jobs : ~Stopped /\ FireFetch(j)
  \/ \E j \in Jobs : JobStep(j)
  \/ Stop

ShutdownSpec == ShutdownInit /\ [][ShutdownNext]_vars

\* ----------------------------------------------------- the host cooldown
\* RateLimiter on its own: callers set a delay for a host and call
\* acquire(host); a caller that was granted a permit gives it back.  The
\* callers are the periodic and the immediate job of every feed, here
\* without the feed lock.  pc "http" stands for holding the permit,
\* "rl_sleep" for acquire having returned False, "cd_sleep" for the sleep
\* of the cooldown.
Callers == {j \in Jobs : j[2] # "manual"}

\* set_retry_after(host, delay) was called at time `at`, while the callers
\* of `waiting` slept through an earlier cooldown of the host.
CooldownEvent(h, at, delay, waiting) ==
  [ev |-> "set_retry_after", job |-> <<>>, host |-> h, at |-> at,
   delay |-> delay, waiting |-> waiting]

CooldownInit ==
  /\ now = 0
  /\ feed = [f \in Feeds |-> NewFeed(TRUE)]
  /\ item = <<>>
  /\ fetchlog = <<>>
  /\ sem = GLOBAL_CONCURRENCY
  /\ buckets = [h \in Hosts |-> [tokens |-> 2 * capacity, last_update |-> 0]]
  /\ job = [j \in Jobs |-> IdleJob]
  /\ oneshot = {}
  /\ feed_jobs = Feeds
  /\ retry_after_delays = [h \in Hosts |-> None]
  /\ fetch_errors_total = [h \in Hosts |-> 0]
  /\ ticks = 0
  /\ last = Event("none", <<>>, 0, 0, {}, 0)
  /\ served = [f \in Feeds |-> NoValidators]

SetRetryAfter(h, d) ==
  /\ retry_after_delays' = set_retry_after(retry_after_delays, h, d)
  /\ last' = CooldownEvent(h, now, d,
                {j \in Callers : HostOf(j[1]) = h /\ job[j].pc = "cd_sleep"})
  /\ UNCHANGED <<now, feed, item, fetchlog, sem, buckets, job, oneshot,
                 feed_jobs, fetch_errors_total, ticks, served>>

\* acquire(host) is called: with a delay stored for the host it sleeps the
\* delay, whenever the delay was stored; else it goes on to the semaphore.
CdAcquire(j) ==
  LET h == HostOf(j[1])
  IN /\ job[j].pc = "idle"
     /\ IF HasCooldown(retry_after_delays, h)
        THEN /\ job' = [job EXCEPT ![j] =
                          [IdleJob EXCEPT !.pc = "cd_sleep",
                                          !.wake = now + retry_after_delays[h]]]
             /\ UNCHANGED <<sem, buckets>>
        ELSE StartAttempt(j, [IdleJob EXCEPT !.tries = 1])
     /\ UNCHANGED <<now, feed, item, fetchlog, oneshot, feed_jobs,
                    retry_after_delays,
                 fetch_errors_total, ticks, last, served>>

\* The sleep of the cooldown is over: del retry_after_delays[host], then
\* the semaphore.  When another caller has deleted the entry meanwhile the
\* del raises KeyError, which respect_rate_limit turns into False.
CdWake(j) ==
  LET h == HostOf(j[1])
  IN /\ job[j].pc = "cd_sleep"
     /\ Due(job[j].wake)
     /\ IF retry_after_delays[h] = None
        THEN /\ job' = [job EXCEPT ![j].pc = "rl_sleep", ![j].got = FALSE,
                                   ![j].wake = now + 1]
             /\ UNCHANGED <<sem, buckets, retry_after_delays>>
        ELSE /\ retry_after_delays' = [retry_after_delays EXCEPT ![h] = None]
             /\ StartAttempt(j, job[j])
     /\ UNCHANGED <<now, feed, item, fetchlog, oneshot, feed_jobs,
                    fetch_errors_total, ticks, last, served>>

\* acquire has returned; the caller that got a permit releases it.
CdReturn(j) ==
  /\ job[j].pc \in {"http", "rl_sleep"}
  /\ sem' = IF job[j].pc = "http" THEN release_rate_limit(sem) ELSE sem
  /\ job' = [job EXCEPT ![j] = IdleJob]
  /\ UNCHANGED <<now, feed, item, fetchlog, buckets, oneshot, feed_jobs,
                 retry_after_delays,
                 fetch_errors_total, ticks, last, served>>

CooldownNext ==
  \/ Tick
  \/ \E h \in Hosts, d \in 1..MaxRetryAfter : SetRetryAfter(h, d)
  \/ \E j \in Callers : CdAcquire(j)
  \/ \E j \in Callers : CdWake(j)
  \/ \E j \in Callers : SemGranted(j)
  \/ \E j \in Callers : CdReturn(j)

CooldownSpec == CooldownInit /\ [][CooldownNext]_vars

\* ----------------------------------------------------- the token bucket
\* TokenBucket.acquire called at any moment for any host.  A window may
\* begin at any time, so the buckets begin at any level; grants counts,
\* per host, the acquires granted since the beginning.
BucketEvent(ev, h, ok, grants) ==
  [ev |-> ev, job |-> <<>>, host |-> h, ok |-> ok, grants |-> grants]

BucketInit ==
  /\ now = 0
  /\ feed = [f \in Feeds |-> NewFeed(TRUE)]
  /\ item = <<>>
  /\ fetchlog = <<>>
  /\ sem = GLOBAL_CONCURRENCY
  /\ buckets \in [Hosts -> {[tokens |-> k, last_update |-> 0] :
                               k \in 0..(2 * capacity)}]
  /\ job = [j \in Jobs |-> IdleJob]
  /\ oneshot = {}
  /\ feed_jobs = Feeds
  /\ retry_after_delays = [h \in Hosts |-> None]
  /\ fetch_errors_total = [h \in Hosts |-> 0]
  /\ ticks = 0
  /\ last = BucketEvent("none", 1, FALSE, [h \in Hosts |-> 0])
  /\ served = [f \in Feeds |-> NoValidators]

BucketAcquire(h) ==
  LET r == bucket_acquire(buckets[h], now)
  IN /\ buckets' = [buckets EXCEPT ![h] = r.bucket]
     /\ last' = BucketEvent("acquire", h, r.ok,
                            IF r.ok THEN [last.grants EXCEPT ![h] = @ + 1]
                            ELSE last.grants)
     /\ UNCHANGED <<now, feed, item, fetchlog, sem, job, oneshot, feed_jobs,
                    retry_after_delays,
                 fetch_errors_total, ticks, served>>

BucketTick ==
  /\ now < MaxClock
  /\ now' = now + 1
  /\ UNCHANGED <<feed, item, fetchlog, sem, buckets, job, oneshot, feed_jobs,
                 retry_after_delays,
                 fetch_errors_total, ticks, last, served>>

BucketNext ==
  \/ BucketTick
  \/ \E h \in Hosts : BucketAcquire(h)

BucketSpec == BucketInit /\ [][BucketNext]_vars

\* --------------------------------------------------------- registration
\* The feed table from empty on: here feed has a row only for the feeds
\* that were stored.  Rows come from _initialize_feeds (the feeds of the
\* configuration, which are scheduled), from the subscriptions route and
\* from import_opml.  The jobs that are registered run, each execution in
\* one step.
Stored == DOMAIN feed

\* storage.add_feed: the row of the url if there is one, else a new row.
add_feed(fd, f) == IF f \in DOMAIN fd THEN fd ELSE fd @@ (f :> NewFeed(TRUE))

\* A feed was stored by `ev`; scheduled tells whether _schedule_feed_job
\* ran for it.
RegisterEvent(ev, f, scheduled) ==
  [ev |-> ev, job |-> <<f, "periodic", 0>>, scheduled |-> scheduled]

RegisterInit ==
  /\ now = 0
  /\ feed = [f \in {} |-> NewFeed(TRUE)]
  /\ item = <<>>
  /\ fetchlog = <<>>
  /\ sem = GLOBAL_CONCURRENCY
  /\ buckets = [h \in Hosts |-> [tokens |-> 2 * capacity, last_update |-> 0]]
  /\ job = [j \in Jobs |-> IdleJob]
  /\ oneshot = {}
  /\ feed_jobs = {}
  /\ retry_after_delays = [h \in Hosts |-> None]
  /\ fetch_errors_total = [h \in Hosts |-> 0]
  /\ ticks = 0
  /\ last = Event("none", <<>>, 0, 0, {}, 0)
  /\ served = [f \in Feeds |-> NoValidators]

\* One round of the loop of _initialize_feeds: add_feed, then
\* _schedule_feed_job, which replaces the job "feed_<id>", records it in
\* feed_jobs and adds the job "immediate_<id>" (replace_existing).
InitializeFeed(f) ==
  /\ feed' = add_feed(feed, f)
  /\ feed_jobs' = feed_jobs \cup {f}
  /\ oneshot' = oneshot \cup {<<f, "immediate", 0>>}
  /\ last' = RegisterEvent("configured", f, TRUE)
  /\ UNCHANGED <<now, item, fetchlog, sem, buckets, job, retry_after_delays,
                 fetch_errors_total,
                 ticks, served>>

\* The subscriptions route for a url that is not stored: add_feed, then
\* scheduler.schedule_feed_job(feed).  FeedScheduler has no attribute of
\* that name (its method is _schedule_feed_job): AttributeError, after the
\* row was committed.
Subscribe(f) ==
  /\ f \notin Stored
  /\ feed' = add_feed(feed, f)
  /\ last' = RegisterEvent("subscribed", f, FALSE)
  /\ UNCHANGED <<now, item, fetchlog, sem, buckets, job, oneshot, feed_jobs,
                 retry_after_delays,
                 fetch_errors_total, ticks, served>>

\* import_opml for one feed of the file: add_feed and nothing else.
ImportOpml(f) ==
  /\ f \notin Stored
  /\ feed' = add_feed(feed, f)
  /\ last' = RegisterEvent("imported", f, FALSE)
  /\ UNCHANGED <<now, item, fetchlog, sem, buckets, job, oneshot, feed_jobs,
                 retry_after_delays,
                 fetch_errors_total, ticks, served>>

\* A registered job of feed f fires and its execution fetches res.
RegisteredRun(j, res) ==
  /\ ticks < MaxRegRuns
  /\ InTable(j)
  /\ CanLock(feed, j[1])
  /\ LET r == JobTail(acquire_feed_lock(feed, j[1]), item, fetchlog, j[1],
                      res, now)
     IN /\ feed' = r.feed
        /\ item' = r.item
        /\ fetchlog' = r.fetchlog
        /\ fetch_errors_total' =
             record_fetch_metrics(fetch_errors_total, HostOf(j[1]),
                                  r.recorded)
        /\ last' = Event("done", j, ticks + 1, res.status,
                         Guids(res.content), Len(r.fetchlog) - Len(fetchlog))
  /\ oneshot' = oneshot \ {j}
  /\ ticks' = ticks + 1
  /\ UNCHANGED <<now, sem, buckets, job, feed_jobs, retry_after_delays, served>>

RegisterNext ==
  \/ \E f \in Feeds : InitializeFeed(f)
  \/ \E f \in Feeds : Subscribe(f)
  \/ \E f \in Feeds : ImportOpml(f)
  \/ \E j \in Jobs, res \in SerialResults : RegisteredRun(j, res)

RegisterSpec == RegisterInit /\ [][RegisterNext]_vars

\* --------------------------------------------------------------- jitter
\* The job table in time: the clock counts seconds, every feed has the same
\* interval_seconds, and job is the scheduler: whether it runs, and for each
\* job of the table its trigger's next run time, its interval and the time
\* it last fired.  A job that fires runs in the same step.
JitterPercents == {90, 100, 110}

\* int(feed.interval_seconds * jitter) for a jitter of pct percent.
JitteredInterval(pct) == (BaseInterval * pct) \div 100

NoJob == [next_run_time |-> None, interval |-> 0, fired_at |-> None]

JitterEvent(ev, j, at) == [ev |-> ev, job |-> j, at |-> at]

JitterInit ==
  /\ now = 0
  /\ feed = [f \in Feeds |-> NewFeed(TRUE)]
  /\ item = <<>>
  /\ fetchlog = <<>>
  /\ sem = GLOBAL_CONCURRENCY
  /\ buckets = [h \in Hosts |-> [tokens |-> 2 * capacity, last_update |-> 0]]
  /\ job = [running |-> FALSE, table |-> [j \in Jobs |-> NoJob]]
  /\ oneshot = {}
  /\ feed_jobs = {}
  /\ retry_after_delays = [h \in Hosts |-> None]
  /\ fetch_errors_total = [h \in Hosts |-> 0]
  /\ ticks = 0
  /\ last = JitterEvent("none", <<>>, 0)
  /\ served = [f \in Feeds |-> NoValidators]

\* _schedule_feed_job(feed) at time t with a jitter of pct percent: the job
\* "feed_<id>" gets an IntervalTrigger of the jittered interval, whose first
\* run is one interval after t, and the job "immediate_<id>" a date trigger
\* without run_date, which is the time of the call.
schedule_feed_job(table, f, pct, t) ==
  LET i == JitteredInterval(pct)
  IN [table EXCEPT
       ![<<f, "periodic", 0>>] =
         [next_run_time |-> t + i, interval |-> i, fired_at |-> None],
       ![<<f, "immediate", 0>>] =
         [next_run_time |-> t, interval |-> 0, fired_at |-> None]]

\* The loop of _initialize_feeds over the feeds from f on.
RECURSIVE initialize_feeds(_, _, _, _)
initialize_feeds(table, f, pcts, t) ==
  IF f > NumFeeds THEN table
  ELSE initialize_feeds(schedule_feed_job(table, f, pcts[f], t), f + 1, pcts, t)

\* start(): _initialize_feeds schedules every feed of the configuration,
\* each with a jitter of its own, then scheduler.start().  start() does not
\* suspend: all of it happens within the second it is called in.
StartScheduler(pcts) ==
  /\ ~job.running
  /\ job' = [running |-> TRUE,
             table |-> initialize_feeds(job.table, 1, pcts, now)]
  /\ feed_jobs' = Feeds
  /\ oneshot' = {<<f, "immediate", 0>> : f \in Feeds}
  /\ last' = JitterEvent("start", <<>>, now)
  /\ UNCHANGED <<now, feed, item, fetchlog, sem, buckets,
                 retry_after_delays,
                 fetch_errors_total, ticks, served>>

JobDue(j) ==
  /\ InTable(j)
  /\ job.table[j].next_run_time # None
  /\ job.table[j].next_run_time <= now

\* What the fetch of an execution returned: not modified, or a server
\* error, which raises the feed's backoff multiplier.
JitterResults ==
  { FetchResult(304, <<>>, "", "", ""), FetchResult(500, <<>>, "", "", "") }

\* Mutant: the trigger stretches the interval by the feed's multiplier.
get_next_fire_time_backed_off(entry, multiplier_halves) ==
  entry.next_run_time + (entry.interval * multiplier_halves) \div 2

\* The next run of an IntervalTrigger: one interval after the run that is
\* due, with the interval the trigger was made with.  The feed's backoff
\* multiplier is a column of the feed's row and no argument of the trigger.
get_next_fire_time(entry, multiplier_halves) ==
  entry.next_run_time + entry.interval

\* "effective_interval = int(feed.interval_seconds * feed.backoff_multiplier)":
\* computed by the execution and written to the log only.
effective_interval(fd, f) == (BaseInterval * fd[f].backoff_multiplier_halves) \div 2

\* The execution of the job fired for feed f, whose fetch returned res.
JitterRun(f, res) ==
  /\ CanLock(feed, f)
  /\ LET r == JobTail(acquire_feed_lock(feed, f), item, fetchlog, f, res, now)
     IN /\ feed' = r.feed
        /\ item' = r.item
        /\ fetchlog' = r.fetchlog
        /\ fetch_errors_total' =
             record_fetch_metrics(fetch_errors_total, HostOf(f),
                                  r.recorded)

\* The scheduler fires a one-shot job that is due and drops it; the job
\* runs.
FireImmediate(j, res) ==
  /\ job.running
  /\ j[2] = "immediate"
  /\ JobDue(j)
  /\ job' = [job EXCEPT !.table[j].fired_at = now,
                         !.table[j].next_run_time = None]
  /\ oneshot' = oneshot \ {j}
  /\ JitterRun(j[1], res)
  /\ ticks' = ticks + 1
  /\ last' = JitterEvent("tick", j, now)
  /\ UNCHANGED <<now, sem, buckets, feed_jobs, retry_after_delays, served>>

\* The scheduler fires a recurring job that is due; its next run is one
\* interval later; the job runs.
FirePeriodic(j, res) ==
  /\ job.running
  /\ j[2] = "periodic"
  /\ JobDue(j)
  /\ job' = [job EXCEPT
               !.table[j].fired_at = now,
               !.table[j].next_run_time =
                 get_next_fire_time(job.table[j],
                                    feed[j[1]].backoff_multiplier_halves)]
  /\ JitterRun(j[1], res)
  /\ ticks' = ticks + 1
  /\ last' = JitterEvent("tick", j, now)
  /\ UNCHANGED <<now, sem, buckets, oneshot, feed_jobs, retry_after_delays,
                 served>>

\* A second passes; a running scheduler has fired what was due.
JitterClock ==
  /\ now < MaxJitterClock
  /\ \A j \in Jobs : ~JobDue(j)
  /\ now' = now + 1
  /\ UNCHANGED <<feed, item, fetchlog, sem, buckets, job, oneshot, feed_jobs,
                 retry_after_delays,
                 fetch_errors_total, ticks, last, served>>

JitterNext ==
  \/ \E pcts \in [Feeds -> JitterPercents] : StartScheduler(pcts)
  \/ \E j \in Jobs, res \in JitterResults : FireImmediate(j, res)
  \/ \E j \in Jobs, res \in JitterResults : FirePeriodic(j, res)
  \/ JitterClock

JitterSpec == JitterInit /\ [][JitterNext]_vars

\* ---------------------------------------------------------- maintenance
\* The is_new sweep of the maintenance job.  The clock counts hours; item
\* rows carry created_at as the text SQLite holds and is_new.
\*
\* A DateTime column is stored as 'YYYY-MM-DD HH:MM:SS.ffffff' and the
\* cutoff is bound as cutoff_time.isoformat(), 'YYYY-MM-DDTHH:MM:SS.ffffff
\* +00:00'.  A text is the triple of its date, its separator and its time;
\* ' ' sorts before 'T'.
SPACE == 0
LETTER_T == 1

\* The text of a DateTime column for the time t.
StoredText(t) == <<t \div 24, SPACE, t % 24>>

\* datetime.isoformat() of the time t.
isoformat(t) == <<t \div 24, LETTER_T, t % 24>>

\* The time a stored text stands for.
StoredTime(txt) == txt[1] * 24 + txt[3]

\* a < b as SQLite compares two texts: character by character.
TextLess(a, b) ==
  \/ a[1] < b[1]
  \/ a[1] = b[1] /\ a[2] < b[2]
  \/ a[1] = b[1] /\ a[2] = b[2] /\ a[3] < b[3]

\* mark_old_items_as_read(age_hours) at time t, the statement executed:
\* UPDATE item SET is_new = 0 WHERE created_at < :cutoff AND is_new = 1.
mark_old_items_as_read(its, age_hours, t) ==
  LET cutoff == isoformat(t - age_hours)
  IN [i \in DOMAIN its |->
        IF TextLess(its[i].created_at, cutoff) /\ its[i].is_new
        THEN [its[i] EXCEPT !.is_new = FALSE]
        ELSE its[i]]

\* The maintenance job ran at time `at`; raised tells that
\* mark_old_items_as_read raised.
MaintEvent(ev, at, raised) == [ev |-> ev, at |-> at, raised |-> raised]

MaintInit ==
  /\ now = FirstHour
  /\ feed = [f \in Feeds |-> NewFeed(TRUE)]
  /\ item = <<>>
  /\ fetchlog = <<>>
  /\ sem = GLOBAL_CONCURRENCY
  /\ buckets = [h \in Hosts |-> [tokens |-> 2 * capacity, last_update |-> 0]]
  /\ job = [j \in Jobs |-> IdleJob]
  /\ oneshot = {}
  /\ feed_jobs = Feeds
  /\ retry_after_delays = [h \in Hosts |-> None]
  /\ fetch_errors_total = [h \in Hosts |-> 0]
  /\ ticks = 0
  /\ last = MaintEvent("none", 0, FALSE)
  /\ served = [f \in Feeds |-> NoValidators]

\* add_items inserts a row for feed f: created_at is the time of the
\* insert, is_new is true.
ItemCreated(f) ==
  /\ Len(item) < MaxMaintItems
  /\ item' = Append(item, [guid |-> Len(item) + 1, feed_id |-> f,
                           published |-> None,
                           created_at |-> StoredText(now), is_new |-> TRUE])
  /\ last' = MaintEvent("insert", now, FALSE)
  /\ UNCHANGED <<now, feed, fetchlog, sem, buckets, job, oneshot, feed_jobs,
                 retry_after_delays, fetch_errors_total, ticks, served>>

\* _maintenance_job: run_maintenance() (VACUUM, ANALYZE, old FetchLog rows:
\* none is as old as 30 days here), then mark_old_items_as_read(1), the
\* statement going through.
MaintenanceJob ==
  /\ item' = mark_old_items_as_read(item, 1, now)
  /\ last' = MaintEvent("maintenance", now, FALSE)
  /\ UNCHANGED <<now, feed, fetchlog, sem, buckets, job, oneshot, feed_jobs,
                 retry_after_delays, fetch_errors_total, ticks, served>>

\* _maintenance_job where session.exec refuses the parameters, which are
\* passed as a second positional argument while Session.exec of sqlmodel
\* takes params by keyword only: TypeError, logged by the job.
MaintenanceJobRaises ==
  /\ last' = MaintEvent("maintenance", now, TRUE)
  /\ UNCHANGED <<now, feed, item, fetchlog, sem, buckets, job, oneshot,
                 feed_jobs, retry_after_delays, fetch_errors_total, ticks,
                 served>>

\* An hour passes.
MaintClock ==
  /\ now < MaxMaintClock
  /\ now' = now + 1
  /\ UNCHANGED <<feed, item, fetchlog, sem, buckets, job, oneshot, feed_jobs,
                 retry_after_delays, fetch_errors_total, ticks, last, served>>

MaintNext ==
  \/ \E f \in Feeds : ItemCreated(f)
  \/ MaintenanceJob
  \/ MaintenanceJobRaises
  \/ MaintClock

MaintSpec == MaintInit /\ [][MaintNext]_vars

\* -------------------------------------------------------- forced refresh
\* The admin route force-refresh with bypass_cache = true (its default),
\* next to the jobs of the scheduler: the feeds get their validators from
\* the responses of their runs, and the route may be called at any time.
ForceInit ==
  /\ now = 0
  /\ feed = [f \in Feeds |-> NewFeed(TRUE)]
  /\ item = <<>>
  /\ fetchlog = <<>>
  /\ sem = GLOBAL_CONCURRENCY
  /\ buckets = [h \in Hosts |-> [tokens |-> 2 * capacity, last_update |-> 0]]
  /\ job = [j \in Jobs |-> IdleJob]
  /\ oneshot = {<<f, "immediate", 0>> : f \in Feeds}
  /\ feed_jobs = Feeds
  /\ retry_after_delays = [h \in Hosts |-> None]
  /\ fetch_errors_total = [h \in Hosts |-> 0]
  /\ ticks = 0
  /\ last = Event("none", <<>>, 0, 0, {}, 0)
  /\ served = [f \in Feeds |-> NoValidators]

\* force_refresh_feed(feed_id, bypass_cache=True): the row is found,
\* update_feed_status(feed_id, "pending", etag="", last_modified=""), then
\* scheduler.refresh_feed(feed_id).
force_refresh_feed(f) ==
  /\ <<f, "manual", now>> \notin oneshot
  /\ ticks + Cardinality({j \in oneshot : j[2] = "manual"}) < MaxTicks
  /\ feed' = update_feed_status(feed, f, "pending", "", "", now)
  /\ oneshot' = IF f \in feed_jobs THEN oneshot \cup {<<f, "manual", now>>}
                ELSE oneshot
  /\ last' = Event("force", <<f, "manual", now>>, ticks, 0, {}, 0)
  /\ UNCHANGED <<now, item, fetchlog, sem, buckets, job, feed_jobs,
                 retry_after_delays, fetch_errors_total, ticks, served>>

ForceNext ==
  \/ Tick
  \/ \E f \in Feeds : force_refresh_feed(f)
  \/ \E j \in Jobs : FireDropped(j)
  \/ \E j \in Jobs : FireFetch(j)
  \/ \E j \in Jobs : JobStep(j)

ForceSpec == ForceInit /\ [][ForceNext]_vars

\* ------------------------------------------------------ crash and restart
\* The process may die at any point (kill, power loss) and be started
\* again.  The tables live in the SQLite file and survive; the scheduler,
\* its jobs, the rate limiter and the metrics are objects of the process
\* and start afresh.  No except or finally clause runs when the process
\* dies.
\*
\* The start: the module-level objects are built, then start() registers
\* the feeds of the configuration (add_feed returns the rows that exist)
\* and schedules their jobs.  Nothing on this path writes is_fetching.
CrashRestart ==
  /\ last.ev # "restart"
  /\ job' = [j \in Jobs |-> IdleJob]
  /\ sem' = GLOBAL_CONCURRENCY
  /\ buckets' = [h \in Hosts |-> [tokens |-> 2 * capacity, last_update |-> now]]
  /\ retry_after_delays' = [h \in Hosts |-> None]
  /\ fetch_errors_total' = [h \in Hosts |-> 0]
  /\ feed_jobs' = Feeds
  /\ oneshot' = {<<f, "immediate", 0>> : f \in Feeds}
  /\ last' = Event("restart", <<>>, ticks, 0, {}, 0)
  /\ UNCHANGED <<now, feed, item, fetchlog, ticks, served>>

CrashNext ==
  \/ Tick
  \/ \E j \in Jobs : FireDropped(j)
  \/ \E j \in Jobs : FireFetch(j)
  \/ \E j \in Jobs : JobStep(j)
  \/ CrashRestart

\* From the state after the first start().
CrashSpec == ForceInit /\ [][CrashNext]_vars

\* ---------------------------------------------------------------- claims
\* The feed of the latest event.
LastFeed == last.job[1]
\* The latest event is the end of a run whose fetch returned.
RunEnded == last.ev = "done"
\* The number of requests awaiting their response.
InFlight == Cardinality({j \in Jobs : job[j].pc = "http"})

\* C1: for every feed at most one job is between a successful
\* acquire_feed_lock and its release_feed_lock, and while one is the feed's
\* is_fetching flag is set.
C1_MutualExclusion ==
  \A f \in Feeds :
    /\ \A j1, j2 \in JobsOf(f) : Running(j1) /\ Running(j2) => j1 = j2
    /\ (\E j \in JobsOf(f) : Running(j)) => feed[f].is_fetching

\* C1 witness: a tick fired for a feed while another job held its lock.
C1_Witness ==
  /\ last.ev = "dropped"
  /\ \E j \in JobsOf(LastFeed) : Running(j) /\ j # last.job
  /\ feed[LastFeed].is_fetching

C3_DropTick ==
  [][ /\ (last'.ev = "dropped" /\ last' # last) =>
           /\ feed' = feed /\ item' = item /\ fetchlog' = fetchlog
           /\ job' = job /\ sem' = sem /\ buckets' = buckets
           /\ last'.job \notin oneshot'
      /\ (last'.ev = "done" /\ last' # last) => last'.rows = 1 ]_vars

\* C3 witness: two manual refreshes of one feed, the second one dropped
\* while the job of the first is fetching.
C3_Witness ==
  /\ last.ev = "dropped" /\ last.job[2] = "manual"
  /\ \E j \in JobsOf(LastFeed) :
        j[2] = "manual" /\ j # last.job /\ Running(j)
  /\ fetchlog = <<>>

\* C4: every run that acquired the lock appended exactly one FetchLog row.
C4_OneRowPerRun ==
  last.ev \in {"done", "disabled"} => last.rows = 1

\* C5: at most GLOBAL_CONCURRENCY requests are in flight.
C5_GlobalCap == InFlight <= GLOBAL_CONCURRENCY

\* C6: the available permits never exceed GLOBAL_CONCURRENCY and are all
\* back when no fetch is in progress.
C6_PermitPairing ==
  /\ sem <= GLOBAL_CONCURRENCY
  /\ (\A j \in Jobs : ~Running(j)) => sem = GLOBAL_CONCURRENCY

\* C7: a request is in flight only in an attempt whose acquire(host)
\* returned true.
C7_TokenBeforeRequest ==
  \A j \in Jobs : job[j].pc = "http" => job[j].got

\* C8: a run whose fetch returned 2xx with at least one entry ends with the
\* entries stored, status success, the response's validators stored,
\* consecutive_errors 0 and multiplier 1.0.
C8_SuccessWithItems ==
  (RunEnded /\ 200 <= last.status /\ last.status < 300 /\ last.found # {}) =>
     /\ last.found \subseteq Guids(item)
     /\ feed[LastFeed].last_fetch_status = "success"
     /\ served[LastFeed].etag # "" =>
          feed[LastFeed].last_etag = served[LastFeed].etag
     /\ served[LastFeed].last_modified # "" =>
          feed[LastFeed].last_modified = served[LastFeed].last_modified
     /\ feed[LastFeed].consecutive_errors = 0
     /\ feed[LastFeed].backoff_multiplier_halves = 2

\* C9: a run answered 304 sets the status to not_modified and
\* last_fetch_time to the current time, not earlier than before, and leaves
\* the items, both validators, last_published_time and degraded alone.
C9_NotModified ==
  [][ (last'.ev = "done" /\ last' # last /\ last'.status = 304) =>
        LET f == last'.job[1]
        IN /\ feed'[f].last_fetch_status = "not_modified"
           /\ feed'[f].last_fetch_time = now
           /\ feed'[f].last_fetch_time >= feed[f].last_fetch_time
           /\ item' = item
           /\ feed'[f].last_etag = feed[f].last_etag
           /\ feed'[f].last_modified = feed[f].last_modified
           /\ feed'[f].last_published_time = feed[f].last_published_time
           /\ feed'[f].degraded = feed[f].degraded ]_vars

\* C9 witness: a 304 run has ended on a feed that has stored validators,
\* items and an earlier fetch time.
C9_Witness ==
  /\ RunEnded /\ last.status = 304
  /\ feed[LastFeed].last_fetch_status = "not_modified"
  /\ feed[LastFeed].last_etag = "x" /\ feed[LastFeed].last_modified = "m"
  /\ feed[LastFeed].last_fetch_time = 1
  /\ item # <<>>

\* C10: a request of a feed whose last run was answered 200 with an ETag
\* (a Last-Modified) carries that value as If-None-Match
\* (If-Modified-Since).
C10_ConditionalGet ==
  \A j \in Jobs :
    job[j].pc = "http" =>
      /\ served[j[1]].etag # "" => job[j].req_etag = served[j[1]].etag
      /\ served[j[1]].last_modified # "" =>
           job[j].req_lm = served[j[1]].last_modified

\* A FetchLog row of a failed execution: neither 304 nor 2xx.
IsFailure(row) ==
  ~(row.status_code = 304 \/ (200 <= row.status_code /\ row.status_code < 300))

\* The number of executions of feed f that failed since its last success.
RECURSIVE FailStreak(_, _)
FailStreak(lg, f) ==
  IF lg = <<>> THEN 0
  ELSE LET r == lg[Len(lg)]
           rest == SubSeq(lg, 1, Len(lg) - 1)
       IN IF r.feed_id # f THEN FailStreak(rest, f)
          ELSE IF IsFailure(r) THEN 1 + FailStreak(rest, f)
          ELSE 0

\* C11: every feed has consecutive_errors >= 0 and backoff_multiplier =
\* min(4.0, 1 + 0.5 * consecutive_errors), within [1.0, 4.0] (2..8 halves);
\* consecutive_errors is the number of executions that failed in a row, so
\* N failures give N and one success gives 0 and multiplier 1.0.
C11_AdaptiveBackoff ==
  \A f \in Feeds :
    /\ feed[f].consecutive_errors >= 0
    /\ feed[f].backoff_multiplier_halves =
         Min(8, 2 + feed[f].consecutive_errors)
    /\ feed[f].backoff_multiplier_halves \in 2..8
    /\ feed[f].consecutive_errors = FailStreak(fetchlog, f)

\* C11 witness: so many failures in a row that the multiplier is capped.
C11_Witness ==
  /\ feed[1].consecutive_errors > 6
  /\ feed[1].backoff_multiplier_halves = 8
  /\ FailStreak(fetchlog, 1) = feed[1].consecutive_errors

\* The fetch of the run ended in a failure status: 0, 408 or 4xx/5xx.
FailedStatus(s) == s = 0 \/ (400 <= s /\ s < 600)

\* C12: a run whose fetch ended with status 0, 408 or another 4xx/5xx sets
\* last_fetch_status to error, adds exactly 1 to consecutive_errors and
\* appends one FetchLog row that carries that status code.
C12_ErrorOutcome ==
  [][ (last'.ev = "done" /\ last' # last /\ FailedStatus(last'.status)) =>
        LET f == last'.job[1]
        IN /\ feed'[f].last_fetch_status = "error"
           /\ feed'[f].consecutive_errors = feed[f].consecutive_errors + 1
           /\ Len(fetchlog') = Len(fetchlog) + 1
           /\ fetchlog'[Len(fetchlog')].feed_id = f
           /\ fetchlog'[Len(fetchlog')].status_code = last'.status ]_vars

\* C12 witness: the second failed run of a feed in a row, ended by a
\* timeout after the retries, has logged 408.
C12_Witness ==
  /\ RunEnded /\ last.status = 408
  /\ feed[LastFeed].last_fetch_status = "error"
  /\ feed[LastFeed].consecutive_errors = 2
  /\ fetchlog # <<>> /\ fetchlog[Len(fetchlog)].status_code = 408

\* C13: a run whose fetch returned 2xx with a body of zero items sets
\* last_fetch_status to no_items, consecutive_errors to 0 and the
\* multiplier to 1.0.
C13_NoItems ==
  [][ (last'.ev = "done" /\ last' # last /\ last'.found = {}
         /\ 200 <= last'.status /\ last'.status < 300) =>
        LET f == last'.job[1]
        IN /\ feed'[f].last_fetch_status = "no_items"
           /\ feed'[f].consecutive_errors = 0
           /\ feed'[f].backoff_multiplier_halves = 2 ]_vars

\* C13 witness: a 200 without items ended a run of a feed whose run before
\* had failed.
C13_Witness ==
  /\ RunEnded /\ last.status = 200 /\ last.found = {}
  /\ feed[LastFeed].last_fetch_status = "no_items"
  /\ feed[LastFeed].consecutive_errors = 0
  /\ Len(fetchlog) = 2
  /\ fetchlog[1].feed_id = LastFeed /\ IsFailure(fetchlog[1])

\* C14: every outcome of a fetch comes back as a FetchResult, and the
\* result of a failed fetch (status 0, 408 or an HTTP error status) carries
\* a non-empty error message, which the run writes to its FetchLog row.
C14_ErrorMessage ==
  (RunEnded /\ FailedStatus(last.status)) =>
     /\ fetchlog # <<>>
     /\ fetchlog[Len(fetchlog)].status_code = last.status
     /\ fetchlog[Len(fetchlog)].error_message # ""

\* C15: a fetch makes at most RETRY_MAX_ATTEMPTS attempts; a further
\* attempt starts only out of the retry sleep, which is entered only when
\* the request raised (network error, timeout) or after the sleep of a 429
\* with Retry-After; and every fetch ends: each feed is again and again
\* without a running job.
C15_BoundedAttempts ==
  /\ [](\A j \in Jobs : job[j].tries <= RETRY_MAX_ATTEMPTS)
  /\ [][\A j \in Jobs :
          /\ (job'[j].tries > job[j].tries /\ job[j].tries > 0) =>
                (job[j].pc = "bo_sleep" /\ job'[j].tries = job[j].tries + 1)
          /\ (job'[j].pc = "bo_sleep" /\ job[j].pc # "bo_sleep") =>
                job[j].pc \in {"http", "ra_sleep"}]_vars
  /\ \A f \in Feeds : []<>(\A j \in JobsOf(f) : ~Running(j))

\* C15 witness: the last attempt the budget allows is in flight.
C15_Witness ==
  \E j \in Jobs : job[j].tries = RETRY_MAX_ATTEMPTS /\ job[j].pc = "http"

\* C16: a run whose fetch ended with a 5xx status or with 429 has used up
\* the attempt budget and the feed is marked error; a run whose fetch
\* ended with another 4xx status (408 stands for a timeout) ended with the
\* very request that was answered so, without a further attempt, and the
\* feed is marked error.
C16_RetryClassification ==
  [][ \A j \in Jobs :
        (last'.ev = "done" /\ last' # last /\ last'.job = j) =>
          LET s == last'.status
              f == j[1]
          IN /\ (500 <= s /\ s < 600) =>
                   /\ job[j].tries = RETRY_MAX_ATTEMPTS
                   /\ feed'[f].last_fetch_status = "error"
             /\ s = 429 => job[j].tries = RETRY_MAX_ATTEMPTS
             /\ (400 <= s /\ s < 500 /\ s \notin {408, 429}) =>
                   /\ job[j].pc = "http"
                   /\ feed'[f].last_fetch_status = "error" ]_vars

\* Job j sleeps out the Retry-After delay of a 429: the cooldown of its
\* host is pending.
CoolingDown(j) == job[j].pc = "ra_sleep" /\ ~Due(job[j].wake)

\* C17: while the Retry-After delay of a 429 from host H is pending, no
\* other job sends a request to H, and no fetch to another host waits for
\* the permit that the job sleeping out the delay holds.
C17_RetryAfterHonored ==
  [][ \A j \in Jobs :
        CoolingDown(j) =>
          /\ \A k \in Jobs \ {j} :
               HostOf(k[1]) = HostOf(j[1]) =>
                 ~(job[k].pc # "http" /\ job'[k].pc = "http")
          /\ job[j].got =>
               \A k \in Jobs :
                 HostOf(k[1]) # HostOf(j[1]) => job'[k].pc # "sem_wait" ]_vars

\* C18: for the store as it is and every batch, add_items(batch) followed
\* by add_items(batch) returns 0 the second time and leaves the items as
\* the first call left them.
C18_DedupIdempotent ==
  \A f \in Feeds, batch \in Batches :
    LET r1 == add_items(item, batch, f)
        r2 == add_items(r1.items, batch, f)
    IN r2.new_count = 0 /\ r2.items = r1.items

\* C19: no two item rows share a guid, and an add_items call leaves every
\* row whose guid was already stored as it was (or evicts it): the
\* colliding entry of the batch is dropped.
C19_GuidUnique ==
  /\ [](\A i, k \in DOMAIN item : item[i].guid = item[k].guid => i = k)
  /\ [][\A i \in DOMAIN item' :
          item'[i].guid \in Guids(item) =>
            \E k \in DOMAIN item : item[k] = item'[i]]_vars

\* C19 witness: a batch of two entries was handed in for one feed and both
\* were dropped, their guids being stored for another feed.
C19_Witness ==
  /\ last.ev = "add_items" /\ last.batch_len = 2 /\ last.new_count = 0
  /\ item # <<>>
  /\ \A i \in DOMAIN item : item[i].feed_id # LastFeed

\* C20: the store holds at most MAX_ITEMS rows, and for every batch
\* add_items leaves min(MAX_ITEMS, rows present after the inserts) rows,
\* all of them rows that were present, none older by published than a row
\* it deleted (a row without a date counts as oldest).
C20_CapEnforced ==
  /\ Len(item) <= MAX_ITEMS
  /\ \A f \in Feeds, batch \in Batches :
       LET ins == InsertAll(item, batch, f)
           kept == add_items(item, batch, f).items
       IN /\ Len(kept) = Min(MAX_ITEMS, Len(ins))
          /\ \A i \in DOMAIN kept : \E k \in DOMAIN ins : ins[k] = kept[i]
          /\ \A k \in DOMAIN ins :
               (\A i \in DOMAIN kept : kept[i] # ins[k]) =>
                 \A i \in DOMAIN kept : ins[k].published <= kept[i].published

\* C20 witness: two new items went into a store that had room for one of
\* them, and the cleanup deleted a row.
C20_Witness ==
  /\ last.ev = "add_items" /\ last.new_count = 2 /\ last.evicted > 0
  /\ Len(item) = MAX_ITEMS

\* C21: add_items is one transaction: a call that failed has left the
\* table as it was when the call began (none of the batch's items stored,
\* nothing evicted), and the committed table never holds more than
\* MAX_ITEMS rows.
C21_AddItemsAtomic ==
  /\ Len(item) <= MAX_ITEMS
  /\ last.ev = "failed" => item = last.before

\* C22: a degradation sweep sets degraded on exactly the feeds whose
\* last_published_time is earlier than now minus the TTL, leaves the feeds
\* without last_published_time alone, clears no flag, and returns the
\* number of feeds it changed from not degraded to degraded.
C22_DegradationSweep ==
  [][(last'.ev = "sweep" /\ last' # last) =>
       /\ \A f \in Feeds :
            feed'[f].degraded = (feed[f].degraded \/ Stale(feed, f, now))
       /\ last'.count =
            Cardinality({f \in Feeds : ~feed[f].degraded /\ feed'[f].degraded})
    ]_vars

C24_FailureIsolation ==
  [][(last'.ev = "run" /\ last' # last /\ last'.fault # "none") =>
       LET f == last'.job[1]
       IN /\ ~last'.escaped
          /\ last'.rows = 1
          /\ fetchlog'[Len(fetchlog')].feed_id = f
          /\ fetchlog'[Len(fetchlog')].status_code = 0
          /\ fetchlog'[Len(fetchlog')].error_message # ""
          /\ feed'[f].last_fetch_status = "error"
          /\ ~feed'[f].is_fetching
          /\ \A g \in Feeds \ {f} : feed'[g] = feed[g]
    ]_vars

\* C25: every execution that acquired the feed lock, whatever its outcome,
\* leaves the feed's last_fetch_time at the time of its last step, which
\* is not earlier than its start.
C25_LastFetchTimeAdvanced ==
  [][(last' # last /\ last'.ev \in {"done", "disabled"}) =>
       feed'[last'.job[1]].last_fetch_time = now']_vars

\* C26: refresh(feed_id) for a feed that is in the store puts a one-shot
\* job for that feed into the scheduler's job table (from where it is
\* fired, so that an execution attempt follows).
C26_RefreshEnqueues ==
  [][(last'.ev = "refresh" /\ last' # last) => last'.job \in oneshot']_vars

\* C27: once the scheduler is stopped no tick starts, and a job in flight
\* is not cut short: whenever a running job ends, it has appended its
\* FetchLog row and released the lock of its feed.
C27_GracefulShutdown ==
  /\ [][Stopped => ticks' = ticks]_vars
  /\ [][\A j \in Jobs :
          (Running(j) /\ job'[j].pc = "idle") =>
            /\ Len(fetchlog') > Len(fetchlog)
            /\ fetchlog'[Len(fetchlog')].feed_id = j[1]
            /\ ~feed'[j[1]].is_fetching]_vars

\* C28: the cooldown is a deadline.  With set_retry_after(host, d) called
\* at time t as the latest call, an acquire(host) that starts before t + d
\* does not go on before the cooldown is over, an acquire(host) that
\* starts at t + d or later is not put to sleep, and an acquire for a host
\* without a cooldown is not put to sleep.
C28_CooldownDeadline ==
  [][\A j \in Callers :
       LET h == HostOf(j[1])
           set == last.ev = "set_retry_after" /\ last.host = h
       IN job[j].pc = "idle" /\ job'[j].pc # "idle" =>
            /\ (set /\ retry_after_delays[h] # None
                    /\ now < last.at + last.delay) => job'[j].pc = "cd_sleep"
            /\ (set /\ now >= last.at + last.delay) => job'[j].pc # "cd_sleep"
            /\ retry_after_delays[h] = None => job'[j].pc # "cd_sleep"
    ]_vars

\* C29: no job holds a permit of the global semaphore while it sleeps
\* for a Retry-After delay.
C29_NoPermitWhileCoolingDown ==
  \A j \in Jobs : ~(job[j].pc = "ra_sleep" /\ job[j].got)

\* C30: every bucket holds between 0 and capacity tokens; a granted
\* acquire takes exactly one token from the refilled level and a denied
\* one takes none; and the acquires granted to a host in a window of
\* length t are at most capacity + rate * t (all counted in half tokens).
C30_TokenBucketBounds ==
  /\ [](\A h \in Hosts :
          /\ 0 <= buckets[h].tokens /\ buckets[h].tokens <= 2 * capacity
          /\ 2 * last.grants[h] <= 2 * capacity + PER_HOST_RPS_HALVES * now)
  /\ [][(now' = now /\ last'.ev = "acquire") =>
          LET h == last'.host
              level == Refilled(buckets[h], now)
          IN /\ buckets'[h].tokens = IF last'.ok THEN level - 2 ELSE level
             /\ last'.ok = (level >= 2)
             /\ \A g \in Hosts \ {h} : buckets'[g] = buckets[g]]_vars

\* C30 witness: a host was granted two acquires, one of them after a
\* refill, and then denied one by its empty bucket.
C30_Witness ==
  /\ last.ev = "acquire" /\ ~last.ok
  /\ last.grants[last.host] >= 2
  /\ buckets[last.host].tokens < 2

\* C31: every enabled feed of the store has its recurring job in the
\* scheduler, and a feed stored by the subscriptions route is scheduled and
\* gets its immediate one-shot job.
C31_OneJobPerFeed ==
  /\ [](\A f \in Stored : feed[f].enabled => f \in feed_jobs)
  /\ [][(last'.ev = "subscribed" /\ last' # last) =>
          /\ last'.job[1] \in feed_jobs'
          /\ <<last'.job[1], "immediate", 0>> \in oneshot']_vars

\* C32: a job of a disabled feed issues no request: no job of a feed whose
\* enabled flag is false is ever past the flag's test, an execution that
\* finds the flag false leaves the feed's row, the items, the fetch log and
\* every job's state as they were, and no step removes a feed's row.
C32_DisabledSkipped ==
  /\ [](\A j \in Jobs : Running(j) => feed[j[1]].enabled)
  /\ [][(last'.ev = "disabled" /\ last'.n # last.n) =>
          /\ ~feed[last'.job[1]].enabled
          /\ feed' = feed /\ item' = item /\ fetchlog' = fetchlog
          /\ job' = job /\ sem' = sem /\ buckets' = buckets]_vars
  /\ [][DOMAIN feed \subseteq DOMAIN feed'
          /\ \A f \in DOMAIN feed : feed'[f].enabled = feed[f].enabled]_vars

\* A job of a disabled feed has just run and returned, while the other
\* feed, enabled, is being fetched.
C32_Witness ==
  /\ last.ev = "disabled"
  /\ ~feed[LastFeed].enabled
  /\ \E j \in Jobs : Running(j)

\* C33: the immediate ticks of feeds registered together are spread: no two
\* of them fire within 5 seconds of each other.
C33_ImmediateSpread ==
  \A f, g \in Feeds :
    LET a == job.table[<<f, "immediate", 0>>].fired_at
        b == job.table[<<g, "immediate", 0>>].fired_at
    IN (f # g /\ a # None /\ b # None /\ a >= b) => a - b >= SpreadSeconds

C35_ErrorsCounted ==
  [][(last'.ev = "done" /\ last' # last) =>
        LET f == last'.job[1]
            wrong == feed'[f].last_fetch_status = "error"
        IN fetch_errors_total' =
             IF wrong
             THEN [fetch_errors_total EXCEPT ![HostOf(f)] = @ + 1]
             ELSE fetch_errors_total]_vars

\* C36: after a maintenance sweep every item created more than one hour
\* ago has is_new = false, every item created within the last hour has
\* the is_new it had, no row is added or removed, and no step sets is_new
\* back to true.
C36_SweepMarksOld ==
  /\ [][(last'.ev = "maintenance" /\ (last' # last \/ item' # item)) =>
          /\ Len(item') = Len(item)
          /\ \A i \in DOMAIN item :
               IF StoredTime(item[i].created_at) < now - 1
               THEN ~item'[i].is_new
               ELSE item'[i] = item[i]]_vars
  /\ [][\A i \in DOMAIN item : ~item[i].is_new => ~item'[i].is_new]_vars

\* C37: a force-refresh with bypass_cache = true leaves the feed without
\* stored validators, and the refresh it triggers, when it starts before
\* any other run of the feed has ended, sends neither If-None-Match nor
\* If-Modified-Since.
C37_BypassClearsValidators ==
  /\ [][(last'.ev = "force" /\ last' # last) =>
          /\ feed'[last'.job[1]].last_etag = ""
          /\ feed'[last'.job[1]].last_modified = ""]_vars
  /\ [][(last.ev = "force" /\ last'.ev = "started" /\ last'.job = last.job) =>
          /\ job'[last'.job].req_etag = ""
          /\ job'[last'.job].req_lm = ""]_vars

\* C38: no lock is stale: a feed whose is_fetching flag is set has a job
\* execution running, also after the process died while a job held the
\* lock and was started again.
C38_NoStaleLock ==
  \A f \in Feeds : feed[f].is_fetching => \E j \in JobsOf(f) : Running(j)

\* C39: callers of acquire(host) that sleep through the same cooldown all
\* go on to the semaphore when it is over: the entry of the host is still
\* there when a sleeper wakes (its del does not fail), and a sleeper that
\* wakes leaves in place a cooldown that was set while it slept.
C39_SharedCooldown ==
  [][\A j \in Callers :
       LET h == HostOf(j[1])
       IN (job[j].pc = "cd_sleep" /\ job'[j].pc # "cd_sleep") =>
            /\ retry_after_delays[h] # None
            /\ (last.ev = "set_retry_after" /\ last.host = h
                   /\ j \in last.waiting) => retry_after_delays'[h] # None
    ]_vars

\* C40: last_published_time of a feed never moves backwards, whatever the
\* runs of the feed fetch (None, the value before the first dated item, is
\* below every time): a batch of older items does not lower it.
C40_PublishedTimeMonotonic ==
  [][\A f \in Feeds :
       feed'[f].last_published_time >= feed[f].last_published_time]_vars

====
